---------------------------- MODULE Spec2Model ----------------------------
(***************************************************************************)
(* A model of pangolin's rule-template engine (server/lib/                 *)
(* ruleTemplateLogic.ts): the matchers (isIPInCIDR, matchesPathPattern),   *)
(* evaluateRules, and the propagation of a template's rules into the       *)
(* resources it is assigned to.                                            *)
(*                                                                         *)
(* Strings that the code takes apart (addresses, CIDR blocks, paths, glob  *)
(* patterns) are sequences of one-character strings.  The store is three   *)
(* tables: templateRules, resourceRules and resourceTemplates.             *)
(***************************************************************************)
EXTENDS Integers, Sequences, FiniteSets, TLC

VARIABLES
    templateRules,      \* templateId -> set of rule rows of that template
    resourceRules,      \* resourceId -> set of rule rows of that resource
    resourceTemplates,  \* set of <<resourceId, templateId>> assignment rows
    nextRuleId,         \* the auto-increment ruleId of table resourceRules
    nextTemplateRuleId, \* the auto-increment ruleId of table templateRules
    requests,           \* the number of requests the handlers have answered
    lastOp,             \* the last completed operation on the store
    prevOp,             \* the operation completed before lastOp
    preRules,           \* resourceRules as it was before lastOp
    call,               \* the pending call of a pure function (its inputs)
    ret                 \* what the call returned, once it has

storeVars == <<templateRules, resourceRules, resourceTemplates, nextRuleId,
               nextTemplateRuleId, requests, lastOp, prevOp, preRules>>
callVars == <<call, ret>>
vars == <<templateRules, resourceRules, resourceTemplates, nextRuleId,
          nextTemplateRuleId, requests, lastOp, prevOp, preRules, call, ret>>

NaN == [nan |-> TRUE, v |-> 0]
NoOp == [op |-> "none"]

(***************************************************************************)
(* Sequence helpers                                                        *)
(***************************************************************************)
\* the concatenation of a sequence of sequences
RECURSIVE Flatten(_)
Flatten(ss) ==
    IF ss = <<>> THEN <<>> ELSE Head(ss) \o Flatten(Tail(ss))

Range(s) == {s[i] : i \in DOMAIN s}

SeqsUpTo(S, n) == UNION {[1..k -> S] : k \in 0..n}

(***************************************************************************)
(* matchesPathPattern: the glob is rewritten into a regular expression by  *)
(* three String.replace passes, then tested with RegExp.test.              *)
(***************************************************************************)
\* the character class of the first replace: [.*+?^${}()|[\]\\]
RegexSpecials ==
    {".", "*", "+", "?", "^", "$", "{", "}", "(", ")", "|", "[", "]", "\\"}

\* a first pass that escapes nothing
EscapeChar_Nothing(c) == <<c>>

\* .replace(/[.*+?^${}()|[\]\\]/g, '\\$&')
EscapeChar(c) == IF c \in RegexSpecials THEN <<"\\", c>> ELSE <<c>>
EscapeRegex(s) == Flatten([i \in DOMAIN s |-> EscapeChar(s[i])])

\* .replace(/\*/g, '.*')
StarChar(c) == IF c = "*" THEN <<".", "*">> ELSE <<c>>
ReplaceStar(s) == Flatten([i \in DOMAIN s |-> StarChar(s[i])])

\* .replace(/\?/g, '.')
QuestionChar(c) == IF c = "?" THEN <<".">> ELSE <<c>>
ReplaceQuestion(s) == Flatten([i \in DOMAIN s |-> QuestionChar(s[i])])

\* the three passes in the order the code applies them
GlobToRegex(pattern) == ReplaceQuestion(ReplaceStar(EscapeRegex(pattern)))

(***************************************************************************)
(* The regular expressions the rewriting can produce: a sequence of atoms  *)
(* (an escaped character \c, the wildcard ., or a plain character), each   *)
(* optionally followed by the quantifier *.  ParseRegex reads the source   *)
(* text as RegExp does; RegexMatch is the anchored (^...$) test.           *)
(***************************************************************************)
RECURSIVE ParseRegex(_)
ParseRegex(r) ==
    IF r = <<>> THEN <<>>
    ELSE LET esc  == r[1] = "\\" /\ Len(r) >= 2
             atom == IF esc THEN [kind |-> "lit", ch |-> r[2]]
                     ELSE IF r[1] = "." THEN [kind |-> "any", ch |-> "."]
                     ELSE [kind |-> "lit", ch |-> r[1]]
             used == IF esc THEN 2 ELSE 1
             star == Len(r) > used /\ r[used + 1] = "*"
             rest == SubSeq(r, used + (IF star THEN 2 ELSE 1), Len(r))
         IN  <<[atom |-> atom, star |-> star]>> \o ParseRegex(rest)

AtomMatches(atom, c) == atom.kind = "any" \/ atom.ch = c

RECURSIVE RegexMatch(_, _)
RegexMatch(toks, s) ==
    IF toks = <<>> THEN s = <<>>
    ELSE LET t == Head(toks)
         IN  IF t.star
             THEN \/ RegexMatch(Tail(toks), s)
                  \/ /\ s # <<>>
                     /\ AtomMatches(t.atom, Head(s))
                     /\ RegexMatch(toks, Tail(s))
             ELSE /\ s # <<>>
                  /\ AtomMatches(t.atom, Head(s))
                  /\ RegexMatch(Tail(toks), Tail(s))

\* new RegExp(`^${regexPattern}$`).test(path)
RegexTest(regexPattern, path) == RegexMatch(ParseRegex(regexPattern), path)

matchesPathPattern(path, pattern) == RegexTest(GlobToRegex(pattern), path)

(***************************************************************************)
(* isIPInCIDR and ipToNumber.                                              *)
(*                                                                         *)
(* A JavaScript number is modelled as NaN or as a 32-bit two's-complement  *)
(* integer holding the number modulo 2^32: every consumer of these numbers *)
(* in the code (<<, &, >>>) first reduces its operand modulo 2^32, and +   *)
(* commutes with that reduction, so nothing observable is lost.  The bits  *)
(* of a word are a function 0..31 -> {0, 1}, bit 31 the sign bit.          *)
(***************************************************************************)
MinInt32 == (-(2^30)) * 2
MaxInt32 == (2^30 - 1) * 2 + 1

Bits32(x) == [i \in 0..31 |-> IF i = 31 THEN (IF x < 0 THEN 1 ELSE 0)
                                        ELSE (x \div 2^i) % 2]

RECURSIVE SumLowBits(_, _)
SumLowBits(b, i) == IF i < 0 THEN 0 ELSE b[i] * 2^i + SumLowBits(b, i - 1)

FromBits32(b) == SumLowBits(b, 30) + (IF b[31] = 1 THEN MinInt32 ELSE 0)

\* a JavaScript number: NaN, or Num(v) with v the value modulo 2^32
Num(v) == [nan |-> FALSE, v |-> v]

\* ToInt32: NaN becomes 0
ToInt32(x) == IF x.nan THEN 0 ELSE x.v

\* x << k: the operand as an int32, the count modulo 32
Shl32(x, k) ==
    LET b == Bits32(ToInt32(x))
        n == k % 32
    IN  Num(FromBits32([i \in 0..31 |-> IF i >= n THEN b[i - n] ELSE 0]))

\* x & y on int32 operands
And32(x, y) ==
    LET a == Bits32(ToInt32(x))
        b == Bits32(ToInt32(y))
    IN  Num(FromBits32([i \in 0..31 |-> a[i] * b[i]]))

\* x + y, kept modulo 2^32; NaN is absorbing
JsAdd(x, y) ==
    IF x.nan \/ y.nan THEN NaN
    ELSE IF x.v > 0 /\ y.v > MaxInt32 - x.v
         THEN Num((x.v + MinInt32) + (y.v + MinInt32))
    ELSE IF x.v < 0 /\ y.v < MinInt32 - x.v
         THEN Num((x.v - MinInt32) + (y.v - MinInt32))
    ELSE Num(x.v + y.v)

\* x >>> 0: the same 32 bits read as unsigned (NaN becomes 0)
Ushr0(x) == Num(ToInt32(x))

Digits == {"0", "1", "2", "3", "4", "5", "6", "7", "8", "9"}
DigitVal(c) == CASE c = "0" -> 0 [] c = "1" -> 1 [] c = "2" -> 2
                 [] c = "3" -> 3 [] c = "4" -> 4 [] c = "5" -> 5
                 [] c = "6" -> 6 [] c = "7" -> 7 [] c = "8" -> 8
                 [] c = "9" -> 9

\* undefined, as parseInt sees it: the text "undefined"
Undefined == <<"u", "n", "d", "e", "f", "i", "n", "e", "d">>

\* the value of the leading run of decimal digits of s, -1 if there is none
RECURSIVE LeadingDigits(_, _, _)
LeadingDigits(s, acc, seen) ==
    IF s = <<>> \/ Head(s) \notin Digits
    THEN (IF seen THEN acc ELSE -1)
    ELSE LeadingDigits(Tail(s), acc * 10 + DigitVal(Head(s)), TRUE)

\* parseInt(s): an optional sign, then the leading decimal digits; NaN when
\* there is no digit.  Trailing text is ignored.
parseInt(s) ==
    IF s = <<>> THEN NaN
    ELSE LET neg  == Head(s) = "-"
             body == IF Head(s) \in {"-", "+"} THEN Tail(s) ELSE s
             v    == LeadingDigits(body, 0, FALSE)
         IN  IF v = -1 THEN NaN ELSE IF neg THEN Num(0 - v) ELSE Num(v)

\* String.prototype.split(sep) for a one-character separator
RECURSIVE SplitFrom(_, _, _)
SplitFrom(s, sep, cur) ==
    IF s = <<>> THEN <<cur>>
    ELSE IF Head(s) = sep THEN <<cur>> \o SplitFrom(Tail(s), sep, <<>>)
    ELSE SplitFrom(Tail(s), sep, Append(cur, Head(s)))

Split(s, sep) == SplitFrom(s, sep, <<>>)

\* octets.reduce((acc, octet) => (acc << 8) + parseInt(octet), acc)
RECURSIVE ReduceOctets(_, _)
ReduceOctets(octets, acc) ==
    IF octets = <<>> THEN acc
    ELSE ReduceOctets(Tail(octets), JsAdd(Shl32(acc, 8), parseInt(Head(octets))))

ipToNumber(ip) == Ushr0(ReduceOctets(Split(ip, "."), Num(0)))

\* a mask one bit too short: (0xFFFFFFFF << (33 - mask)) >>> 0
MaskNum_OneBitShort(mask) == Ushr0(Shl32(Num(-1), 33 - mask))

\* (0xFFFFFFFF << (32 - mask)) >>> 0; 0xFFFFFFFF is -1 as an int32
MaskNum(mask) == Ushr0(Shl32(Num(-1), 32 - mask))

isIPInCIDR(ip, cidr) ==
    LET parts   == Split(cidr, "/")
        network == parts[1]
        bits    == IF Len(parts) >= 2 THEN parts[2] ELSE Undefined
        mask    == parseInt(bits)
    IN  IF mask.nan THEN FALSE
        ELSE IF mask.v < 0 \/ mask.v > 32 THEN FALSE
        ELSE LET networkNum == ipToNumber(network)
                 ipNum      == ipToNumber(ip)
                 maskNum    == MaskNum(mask.v)
             IN  And32(networkNum, maskNum) = And32(ipNum, maskNum)

(***************************************************************************)
(* evaluateRules.  The rule list is a sequence; a rule is named by its     *)
(* position in the list passed in, and the result is that position, or     *)
(* Null.  A request field is [has, text]: has is FALSE when the field is   *)
(* undefined.                                                              *)
(***************************************************************************)
Null == 0

\* the truthiness of an optional string: defined and not empty
Truthy(field) == field.has /\ field.text # <<>>

\* Array.prototype.sort with (a, b) => a.priority - b.priority is stable:
\* position i goes after every already placed rule of lower or equal priority
RECURSIVE InsertByPriority(_, _, _)
InsertByPriority(rules, i, sorted) ==
    IF sorted = <<>> THEN <<i>>
    ELSE IF rules[Head(sorted)].priority - rules[i].priority <= 0
         THEN <<Head(sorted)>> \o InsertByPriority(rules, i, Tail(sorted))
         ELSE <<i>> \o sorted

RECURSIVE SortPrefix(_, _)
SortPrefix(rules, n) ==
    IF n = 0 THEN <<>>
    ELSE InsertByPriority(rules, n, SortPrefix(rules, n - 1))

\* [...rules].sort((a, b) => a.priority - b.priority), as positions
SortByPriority(rules) == SortPrefix(rules, Len(rules))

\* the switch on rule.match
RuleMatches(rule, request) ==
    CASE rule.match = "IP" ->
             Truthy(request.ip) /\ rule.value = request.ip.text
      [] rule.match = "CIDR" ->
             Truthy(request.ip) /\ isIPInCIDR(request.ip.text, rule.value)
      [] rule.match = "PATH" ->
             Truthy(request.path)
                 /\ matchesPathPattern(request.path.text, rule.value)
      [] OTHER -> FALSE

\* a loop without the "if (!rule.enabled) continue": the first rule that matches
FirstMatch_IgnoresEnabled(rules, order, request) ==
    LET hits == {k \in DOMAIN order : RuleMatches(rules[order[k]], request)}
    IN  IF hits = {} THEN Null
        ELSE order[CHOOSE k \in hits : \A other \in hits : k <= other]

\* the for loop: the first enabled rule that matches
RECURSIVE FirstMatch(_, _, _)
FirstMatch(rules, order, request) ==
    IF order = <<>> THEN Null
    ELSE LET rule == rules[Head(order)]
         IN  IF ~rule.enabled THEN FirstMatch(rules, Tail(order), request)
             ELSE IF RuleMatches(rule, request) THEN Head(order)
             ELSE FirstMatch(rules, Tail(order), request)

\* an evaluation that walks the rules in the order given, without the sort
evaluateRules_Unsorted(rules, request) ==
    FirstMatch(rules, [i \in DOMAIN rules |-> i], request)

evaluateRules(rules, request) ==
    FirstMatch(rules, SortByPriority(rules), request)

(***************************************************************************)
(* The store's universe                                                    *)
(***************************************************************************)
Templates == {"t1", "t2"}
Resources == {1, 2}

EmptyTemplateRules == [t \in Templates |-> {}]
EmptyResourceRules == [r \in Resources |-> {}]

\* the store, untouched, in the behaviours that only call a pure function
StoreIdle ==
    /\ templateRules = EmptyTemplateRules
    /\ resourceRules = EmptyResourceRules
    /\ resourceTemplates = {}
    /\ nextRuleId = 1
    /\ nextTemplateRuleId = 1
    /\ requests = 0
    /\ lastOp = NoOp
    /\ prevOp = NoOp
    /\ preRules = EmptyResourceRules

NotReturned == [done |-> FALSE]
Returned(v) == [done |-> TRUE, value |-> v]

(***************************************************************************)
(* Calls of matchesPathPattern                                             *)
(***************************************************************************)
MaxPathLen == 3

PathAlphabet == {"/", "a", "."}
PatternAlphabet == {"/", "a", ".", "*", "?"}

Str_api_users == <<"/", "a", "p", "i", "/", "u", "s", "e", "r", "s">>
Str_api_star  == <<"/", "a", "p", "i", "/", "*">>
Str_admin     == <<"/", "a", "d", "m", "i", "n">>
Str_a         == <<"/", "a">>
Str_ab        == <<"/", "a", "b">>
Str_aq        == <<"/", "a", "?">>

Paths == SeqsUpTo(PathAlphabet, MaxPathLen)
             \cup {Str_api_users, Str_admin, Str_a, Str_ab}
Patterns == SeqsUpTo(PatternAlphabet, MaxPathLen) \cup {Str_api_star, Str_aq}

InitPath ==
    /\ StoreIdle
    /\ call \in [fn : {"matchesPathPattern"}, path : Paths, pattern : Patterns]
    /\ ret = NotReturned

CallMatchesPathPattern ==
    /\ call.fn = "matchesPathPattern"
    /\ ~ret.done
    /\ ret' = Returned(matchesPathPattern(call.path, call.pattern))
    /\ UNCHANGED <<call, storeVars>>

NextPath == CallMatchesPathPattern

SpecPath == InitPath /\ [][NextPath]_vars

\* glob matching as the comments of matchesPathPattern describe it:
\* * is any run of characters, ? is any one character, the rest is literal
RECURSIVE GlobMatches(_, _)
GlobMatches(pat, s) ==
    IF pat = <<>> THEN s = <<>>
    ELSE IF Head(pat) = "*"
         THEN \/ GlobMatches(Tail(pat), s)
              \/ s # <<>> /\ GlobMatches(pat, Tail(s))
         ELSE /\ s # <<>>
              /\ Head(pat) = "?" \/ Head(pat) = Head(s)
              /\ GlobMatches(Tail(pat), Tail(s))

PathReturned == call.fn = "matchesPathPattern" /\ ret.done

\* C3: for every path and every pattern with a `*` (and no `?`), the result
\* is that of glob matching with `*` as any run of characters, the empty run
\* included; in particular "/api/users" matches "/api/*" and "/admin" does not.
C3_StarMatchesAnyRun ==
    (PathReturned /\ "*" \in Range(call.pattern)
                  /\ "?" \notin Range(call.pattern))
        => ret.value = GlobMatches(call.pattern, call.path)

\* C4: for every path and every pattern with a `?` (and no `*`), the result
\* is that of glob matching with `?` as exactly one arbitrary character; in
\* particular "/ab" matches "/a?" and "/a" does not.
C4_QuestionMatchesOneChar ==
    (PathReturned /\ "?" \in Range(call.pattern)
                  /\ "*" \notin Range(call.pattern))
        => ret.value = GlobMatches(call.pattern, call.path)

(***************************************************************************)
(* Calls of isIPInCIDR.  An address is written from a list of octet        *)
(* tokens and a CIDR block from a network and a prefix token; a token is   *)
(* [n |-> k], the decimal numeral of k, or [raw |-> text], or (for the     *)
(* prefix) [none |-> TRUE]: a block written without "/".                   *)
(***************************************************************************)
DigitChar(d) == CASE d = 0 -> "0" [] d = 1 -> "1" [] d = 2 -> "2"
                  [] d = 3 -> "3" [] d = 4 -> "4" [] d = 5 -> "5"
                  [] d = 6 -> "6" [] d = 7 -> "7" [] d = 8 -> "8"
                  [] d = 9 -> "9"

RECURSIVE ToDecimal(_)
ToDecimal(n) ==
    IF n < 10 THEN <<DigitChar(n)>>
    ELSE Append(ToDecimal(n \div 10), DigitChar(n % 10))

IsNum(tok) == "n" \in DOMAIN tok
TokenText(tok) == IF IsNum(tok) THEN ToDecimal(tok.n) ELSE tok.raw

RECURSIVE DottedText(_)
DottedText(toks) ==
    IF toks = <<>> THEN <<>>
    ELSE IF Len(toks) = 1 THEN TokenText(toks[1])
    ELSE TokenText(toks[1]) \o <<".">> \o DottedText(Tail(toks))

CidrText(netToks, bitsTok) ==
    IF "none" \in DOMAIN bitsTok THEN DottedText(netToks)
    ELSE DottedText(netToks) \o <<"/">> \o TokenText(bitsTok)

Quad(a, b, c, d) == <<[n |-> a], [n |-> b], [n |-> c], [n |-> d]>>

OctetSamples == {0, 1, 128}
WellQuads == {Quad(a, b, c, d) : a, b, c, d \in OctetSamples}

\* q with octet k replaced by v
WithOctet(q, k, v) == [q EXCEPT ![k] = [n |-> v]]
NearQuads(q) == {q} \cup {WithOctet(q, k, v) : k \in 1..4, v \in OctetSamples}

ExampleQuads == {Quad(192, 168, 1, 5), Quad(192, 168, 2, 5),
                 Quad(192, 168, 1, 0), Quad(10, 0, 0, 1), Quad(10, 0, 0, 0),
                 Quad(255, 255, 255, 255)}

MalformedAddrs ==
    { <<[n |-> 0], [n |-> 0], [n |-> 1]>>,                      \* 0.0.1
      <<[n |-> 0], [n |-> 0], [n |-> 0], [n |-> 0], [n |-> 1]>>, \* 0.0.0.0.1
      <<[n |-> 256], [n |-> 0], [n |-> 0], [n |-> 1]>>,          \* 256.0.0.1
      <<[raw |-> <<"x">>], [n |-> 0], [n |-> 0], [n |-> 1]>>,    \* x.0.0.1
      <<[raw |-> <<>>]>> }                                       \* ""

\* prefix lengths around every octet boundary
PrefixSamples == {0, 1, 2, 7, 8, 9, 15, 16, 17, 23, 24, 25, 30, 31, 32}
WellPrefixTokens == {[n |-> k] : k \in PrefixSamples}
MalformedPrefixTokens ==
    { [n |-> 33], [raw |-> <<"-", "1">>], [raw |-> <<"x">>], [raw |-> <<>>],
      [raw |-> <<"8", "x">>], [raw |-> <<"1", ".", "5">>], [none |-> TRUE] }
PrefixTokens == WellPrefixTokens \cup MalformedPrefixTokens

SampleQuads == {Quad(0, 0, 0, 1), Quad(128, 0, 0, 1), Quad(0, 0, 0, 0)}

CidrInputs ==
    {pair \in WellQuads \X WellQuads : pair[2] \in NearQuads(pair[1])}
    \cup (ExampleQuads \X ExampleQuads)
    \cup (MalformedAddrs \X SampleQuads)
    \cup (SampleQuads \X MalformedAddrs)

InitCidr ==
    /\ StoreIdle
    /\ \E pair \in CidrInputs, bitsTok \in PrefixTokens :
           call = [fn |-> "isIPInCIDR",
                   ipTok |-> pair[1], netTok |-> pair[2], bitsTok |-> bitsTok,
                   ip |-> DottedText(pair[1]),
                   cidr |-> CidrText(pair[2], bitsTok)]
    /\ ret = NotReturned

CallIsIPInCIDR ==
    /\ call.fn = "isIPInCIDR"
    /\ ~ret.done
    /\ ret' = Returned(isIPInCIDR(call.ip, call.cidr))
    /\ UNCHANGED <<call, storeVars>>

NextCidr == CallIsIPInCIDR

SpecCidr == InitCidr /\ [][NextCidr]_vars

\* a well-formed dotted quad: four numerals, each 0..255
WellFormedQuad(toks) ==
    Len(toks) = 4 /\ \A k \in 1..4 : IsNum(toks[k]) /\ toks[k].n \in 0..255
WellFormedPrefix(tok) == IsNum(tok) /\ tok.n \in 0..32

\* the top n bits of two addresses agree, octet by octet: octet k holds
\* bits 8(k-1)+1 .. 8k, of which the first `inside` are within the prefix
TopBitsEqual(a, b, n) ==
    \A k \in 1..4 :
        LET left   == n - 8 * (k - 1)
            inside == IF left <= 0 THEN 0 ELSE IF left >= 8 THEN 8 ELSE left
        IN  a[k].n \div 2^(8 - inside) = b[k].n \div 2^(8 - inside)

CidrReturned == call.fn = "isIPInCIDR" /\ ret.done
CidrWellFormed ==
    /\ WellFormedQuad(call.ipTok)
    /\ WellFormedQuad(call.netTok)
    /\ WellFormedPrefix(call.bitsTok)

\* C5: for well-formed addresses and a prefix length n in 1..32 the result
\* is TRUE exactly when the top n bits of the two big-endian 32-bit address
\* values are equal, also for a first octet of 128 or more.
C5_PrefixBitsDecide ==
    (CidrReturned /\ CidrWellFormed /\ call.bitsTok.n \in 1..32)
        => ret.value = TopBitsEqual(call.ipTok, call.netTok, call.bitsTok.n)

\* C5 witness: an address with first octet >= 128 found inside a block of
\* prefix length 1..31 whose network address is another address
C5_Witness ==
    /\ CidrReturned /\ CidrWellFormed
    /\ call.bitsTok.n \in 1..31
    /\ call.ipTok[1].n >= 128
    /\ call.ipTok # call.netTok
    /\ ret.value = TRUE

\* C6: with prefix length 0 every well-formed address is in every block
C6_PrefixZeroMatchesAll ==
    (CidrReturned /\ CidrWellFormed /\ call.bitsTok.n = 0)
        => ret.value = TRUE

\* C7: a prefix length that is not an integer in 0..32, or an address that
\* is not a well-formed dotted quad, makes the result FALSE
C7_MalformedIsRejected ==
    (CidrReturned /\ ~CidrWellFormed) => ret.value = FALSE

(***************************************************************************)
(* Calls of evaluateRules                                                  *)
(***************************************************************************)
MaxEvalRules == 3

Str_10_0_0_1    == <<"1", "0", ".", "0", ".", "0", ".", "1">>
Str_10_0_0_9    == <<"1", "0", ".", "0", ".", "0", ".", "9">>
Str_10_0_0_0_24 == <<"1", "0", ".", "0", ".", "0", ".", "0", "/", "2", "4">>
Str_b           == <<"/", "b">>

\* one value per match type; the requests decide which rules match
EvalValue(match) == CASE match = "IP"   -> Str_10_0_0_1
                      [] match = "CIDR" -> Str_10_0_0_0_24
                      [] match = "PATH" -> Str_a

EvalPriorities == {1, 2}

EvalRuleKinds ==
    {[action |-> "ACCEPT", match |-> m, value |-> EvalValue(m),
      priority |-> p, enabled |-> e] :
        m \in {"IP", "CIDR", "PATH"}, p \in EvalPriorities, e \in BOOLEAN}

Absent == [has |-> FALSE, text |-> <<>>]
Given(text) == [has |-> TRUE, text |-> text]

EvalRequests ==
    [ip   : {Absent, Given(<<>>), Given(Str_10_0_0_1), Given(Str_10_0_0_9)},
     path : {Absent, Given(Str_a), Given(Str_b)}]

InitEval ==
    /\ StoreIdle
    /\ call \in [fn : {"evaluateRules"},
                 rules : SeqsUpTo(EvalRuleKinds, MaxEvalRules),
                 request : EvalRequests]
    /\ ret = NotReturned

CallEvaluateRules ==
    /\ call.fn = "evaluateRules"
    /\ ~ret.done
    /\ ret' = Returned(evaluateRules(call.rules, call.request))
    /\ UNCHANGED <<call, storeVars>>

NextEval == CallEvaluateRules

SpecEval == InitEval /\ [][NextEval]_vars

EvalReturned == call.fn = "evaluateRules" /\ ret.done

\* the positions of the enabled rules that match the request
EnabledMatching(rules, request) ==
    {i \in DOMAIN rules : rules[i].enabled /\ RuleMatches(rules[i], request)}

\* position i comes before position j: lower priority, or the same priority
\* and earlier in the list passed in
Before(rules, i, j) ==
    \/ rules[i].priority < rules[j].priority
    \/ rules[i].priority = rules[j].priority /\ i < j

\* C1: the result is an enabled matching rule with the smallest priority
\* (the earliest in input order among equal priorities), and is null exactly
\* when no enabled rule matches, the empty list included.
C1_FirstEnabledMatch ==
    EvalReturned =>
        LET M == EnabledMatching(call.rules, call.request)
        IN  /\ (ret.value = Null) <=> (M = {})
            /\ ret.value # Null =>
                   /\ ret.value \in M
                   /\ \A j \in M \ {ret.value} :
                          Before(call.rules, ret.value, j)

\* C1 witness: the rule returned is not the first matching one of the list,
\* and another matching rule has its priority
C1_Witness ==
    /\ EvalReturned
    /\ ret.value # Null
    /\ \E j \in EnabledMatching(call.rules, call.request) :
           j < ret.value
               /\ call.rules[j].priority > call.rules[ret.value].priority
    /\ \E j \in EnabledMatching(call.rules, call.request) :
           j > ret.value
               /\ call.rules[j].priority = call.rules[ret.value].priority

\* C2: the result is never a disabled rule, never an IP or CIDR rule when
\* the request has no ip, never a PATH rule when the request has no path
C2_NeverDisabledNorUntestable ==
    (EvalReturned /\ ret.value # Null) =>
        LET rule == call.rules[ret.value]
        IN  /\ rule.enabled
            /\ rule.match \in {"IP", "CIDR"} => call.request.ip.has
            /\ rule.match = "PATH" => call.request.path.has

\* C2 witness: a request without ip, a list whose first rules are a disabled
\* matching PATH rule and an enabled IP rule, and a later rule returned
C2_Witness ==
    /\ EvalReturned
    /\ ~call.request.ip.has
    /\ Len(call.rules) = 3
    /\ call.rules[1].match = "PATH" /\ ~call.rules[1].enabled
    /\ call.rules[2].match = "IP" /\ call.rules[2].enabled
    /\ ret.value = 3

(***************************************************************************)
(* The rule store.  A rule row is [ruleId, action, match, value, priority, *)
(* enabled]; the resource or template that owns it is the key under which  *)
(* resourceRules or templateRules holds it.                                *)
(***************************************************************************)
Triple(rule) == <<rule.action, rule.match, rule.value>>

Min(S) == CHOOSE x \in S : \A y \in S : x <= y
Max(S) == CHOOSE x \in S : \A y \in S : x >= y

\* select ... order by priority.  Rows of equal priority come in ruleId
\* order; the scopes of the behaviours checked here hold no such rows.
RECURSIVE OrderByPriority(_)
OrderByPriority(rows) ==
    IF rows = {} THEN <<>>
    ELSE LET first == CHOOSE x \in rows : \A y \in rows :
                          \/ x.priority < y.priority
                          \/ x.priority = y.priority /\ x.ruleId <= y.ruleId
         IN  <<first>> \o OrderByPriority(rows \ {first})

\* new rows that take the priority of their template rule
NewRules_TemplatePriority(templateRulesList, base, firstId) ==
    {[ruleId   |-> firstId + i - 1,
      action   |-> templateRulesList[i].action,
      match    |-> templateRulesList[i].match,
      value    |-> templateRulesList[i].value,
      priority |-> base + templateRulesList[i].priority,
      enabled  |-> templateRulesList[i].enabled] :
        i \in DOMAIN templateRulesList}

\* templateRulesList.map((templateRule, index) => ({..., priority:
\* base + index + 1, ...})) and its insert, which numbers the new rows
\* firstId, firstId + 1, ...
NewRules(templateRulesList, base, firstId) ==
    {[ruleId   |-> firstId + i - 1,
      action   |-> templateRulesList[i].action,
      match    |-> templateRulesList[i].match,
      value    |-> templateRulesList[i].value,
      priority |-> base + i,
      enabled  |-> templateRulesList[i].enabled] :
        i \in DOMAIN templateRulesList}

\* a findIndex whose predicate accepts every template rule
FindIndex_Any(remaining, existingRule) ==
    IF remaining = <<>> THEN 0 ELSE 1

\* remainingTemplateRules.findIndex(...): the first position whose action,
\* match and value are those of existingRule, 0 if there is none
FindIndex(remaining, existingRule) ==
    LET hits == {i \in DOMAIN remaining :
                     /\ remaining[i].action = existingRule.action
                     /\ remaining[i].match = existingRule.match
                     /\ remaining[i].value = existingRule.value}
    IN  IF hits = {} THEN 0 ELSE Min(hits)

\* a splice that removes nothing
Splice_Nothing(s, i) == s

\* s.splice(i, 1)
Splice(s, i) == SubSeq(s, 1, i - 1) \o SubSeq(s, i + 1, Len(s))

\* the loop over existingRules, consuming remainingTemplateRules
RECURSIVE ExactMatches(_, _)
ExactMatches(existingRules, remaining) ==
    IF existingRules = <<>> THEN <<>>
    ELSE LET matchIndex == FindIndex(remaining, Head(existingRules))
         IN  IF matchIndex # 0
             THEN <<Head(existingRules)>>
                      \o ExactMatches(Tail(existingRules),
                                      Splice(remaining, matchIndex))
             ELSE ExactMatches(Tail(existingRules), remaining)

identifyTemplateRulesInResource(existingRules, templateRulesList) ==
    ExactMatches(existingRules, templateRulesList)

\* a reorderResourceRules that updates no row
reorderResourceRules_NoUpdate(rows) == rows

\* priorities renumbered 1..N in priority order
reorderResourceRules(rows) ==
    LET rules == OrderByPriority(rows)
    IN  {[rules[i] EXCEPT !.priority = i] : i \in DOMAIN rules}

\* an updateResourceWithTemplateRules without the branch for a resource
\* with one template
updateResourceWithTemplateRules_NoSingleBranch(rows, assignedCount, templateRulesList, firstId) ==
    LET existingRules == OrderByPriority(rows)
        templateRulesToUpdate ==
            identifyTemplateRulesInResource(existingRules, templateRulesList)
        ruleIdsToRemove ==
            {templateRulesToUpdate[i].ruleId :
                 i \in DOMAIN templateRulesToUpdate}
        afterDelete == {rule \in rows : rule.ruleId \notin ruleIdsToRemove}
        maxPriority ==
            IF afterDelete # {}
            THEN Max({rule.priority : rule \in afterDelete}) ELSE 0
    IN  reorderResourceRules(
            afterDelete \cup NewRules(templateRulesList, maxPriority, firstId))

\* the rows of one resource after updateResourceWithTemplateRules;
\* assignedCount is the number of templates assigned to the resource
updateResourceWithTemplateRules(rows, assignedCount, templateRulesList, firstId) ==
    LET existingRules == OrderByPriority(rows)
    IN  IF Len(existingRules) = 0
        THEN NewRules(templateRulesList, 0, firstId)
        ELSE IF assignedCount = 1
        THEN NewRules(templateRulesList, 0, firstId)
        ELSE LET templateRulesToUpdate ==
                     identifyTemplateRulesInResource(existingRules,
                                                     templateRulesList)
                 ruleIdsToRemove ==
                     {templateRulesToUpdate[i].ruleId :
                          i \in DOMAIN templateRulesToUpdate}
                 afterDelete ==
                     {rule \in rows : rule.ruleId \notin ruleIdsToRemove}
                 remainingRules ==
                     {rule \in Range(existingRules) :
                          rule.ruleId \notin ruleIdsToRemove}
                 maxPriority ==
                     IF remainingRules # {}
                     THEN Max({rule.priority : rule \in remainingRules})
                     ELSE 0
                 afterInsert ==
                     afterDelete
                         \cup NewRules(templateRulesList, maxPriority, firstId)
             IN  reorderResourceRules(afterInsert)

\* an assignedResources select without its WHERE templateId clause
AssignedResources_Every(templateId) == Resources

AssignedResources(templateId) ==
    {r \in Resources : <<r, templateId>> \in resourceTemplates}
AssignedTemplates(resourceId) ==
    {t \in Templates : <<resourceId, t>> \in resourceTemplates}

\* the orders in which a query without ORDER BY may return the rows of S
Orders(S) == {s \in [1..Cardinality(S) -> S] : Range(s) = S}

\* the for loop of propagateTemplateToResources; every resource takes
\* Len(templateRulesList) fresh ruleIds
RECURSIVE PropagateLoop(_, _, _, _)
PropagateLoop(order, templateRulesList, rules, firstId) ==
    IF order = <<>> THEN rules
    ELSE LET resourceId == Head(order)
             updated == updateResourceWithTemplateRules(
                            rules[resourceId],
                            Cardinality(AssignedTemplates(resourceId)),
                            templateRulesList, firstId)
         IN  PropagateLoop(Tail(order), templateRulesList,
                           [rules EXCEPT ![resourceId] = updated],
                           firstId + Len(templateRulesList))

MaxTemplateRules == 2
MaxResourceRules == 2
\* the ruleIds the propagations of one behaviour may take: enough for two
\* propagations of a full template to two resources
MaxNewRuleIds == 8
\* the initial rows of both resources, and the new ones
MaxRuleId == MaxResourceRules + 1 + MaxNewRuleIds

propagateTemplateToResources(templateId) ==
    LET assignedResources == AssignedResources(templateId)
        templateRulesList == OrderByPriority(templateRules[templateId])
        inserted == Len(templateRulesList) * Cardinality(assignedResources)
    IN  /\ nextRuleId + inserted <= MaxRuleId + 1
        /\ \E order \in Orders(assignedResources) :
               resourceRules' = PropagateLoop(order, templateRulesList,
                                              resourceRules, nextRuleId)
        /\ nextRuleId' = nextRuleId + inserted
        /\ preRules' = resourceRules
        /\ prevOp' = lastOp
        /\ lastOp' = [op |-> "propagate", templateId |-> templateId]
        /\ UNCHANGED <<templateRules, resourceTemplates, nextTemplateRuleId,
                       requests, call, ret>>

(***************************************************************************)
(* Stores to propagate in.  Rules with the same action, match and value,   *)
(* enabled or not, and a rule of another match type; resource rules are    *)
(* what manual edits and earlier synchronisations can have left.           *)
(***************************************************************************)
RuleKinds ==
    { [action |-> "ACCEPT", match |-> "IP", value |-> "1.1.1.1",
       enabled |-> TRUE],
      [action |-> "ACCEPT", match |-> "IP", value |-> "1.1.1.1",
       enabled |-> FALSE],
      [action |-> "DROP", match |-> "PATH", value |-> "/api/*",
       enabled |-> TRUE] }

\* rows ruleIds firstId.., priorities stride, 2 stride, ... in list order
RowsOf(kinds, firstId, stride) ==
    {[ruleId   |-> firstId + i - 1,
      action   |-> kinds[i].action,
      match    |-> kinds[i].match,
      value    |-> kinds[i].value,
      priority |-> stride * i,
      enabled  |-> kinds[i].enabled] : i \in DOMAIN kinds}

OtherTemplateRules == RowsOf(<<[action |-> "DROP", match |-> "PATH",
                                value |-> "/api/*", enabled |-> TRUE]>>,
                             MaxTemplateRules + 1, 5)

\* the second resource starts empty or with one rule
SecondResourceKinds ==
    {<<>>, <<[action |-> "ACCEPT", match |-> "IP", value |-> "1.1.1.1",
              enabled |-> TRUE]>>}

InitProp ==
    /\ \E tk \in SeqsUpTo(RuleKinds, MaxTemplateRules) :
           templateRules = [t \in Templates |->
                               IF t = "t1" THEN RowsOf(tk, 1, 1)
                               ELSE OtherTemplateRules]
    /\ \E k1 \in SeqsUpTo(RuleKinds, MaxResourceRules),
          k2 \in SecondResourceKinds, stride \in {1, 2} :
           /\ resourceRules = [r \in Resources |->
                                  IF r = 1 THEN RowsOf(k1, 1, stride)
                                  ELSE RowsOf(k2, Len(k1) + 1, 1)]
           /\ nextRuleId = Len(k1) + Len(k2) + 1
    /\ nextTemplateRuleId = MaxTemplateRules + 2
    /\ requests = 0
    /\ resourceTemplates \in SUBSET (Resources \X Templates)
    /\ lastOp = NoOp
    /\ prevOp = NoOp
    /\ preRules = resourceRules
    /\ call = [fn |-> "none"]
    /\ ret = NotReturned

Propagate == \E t \in Templates : propagateTemplateToResources(t)

NextProp == Propagate

SpecProp == InitProp /\ [][NextProp]_vars

Propagated == lastOp.op = "propagate"

TemplateTriples(t) == {Triple(rule) : rule \in templateRules[t]}

\* the row is still there, with its action, match, value and enabled flag
Survives(rule, rows) ==
    \E kept \in rows :
        /\ kept.ruleId = rule.ruleId
        /\ Triple(kept) = Triple(rule)
        /\ kept.enabled = rule.enabled

\* the resources the last propagation took through the multi-template path
MultiPathResources ==
    {r \in AssignedResources(lastOp.templateId) :
         Cardinality(AssignedTemplates(r)) >= 2 /\ preRules[r] # {}}

\* C8: in the multi-template path a resource rule whose (action, match,
\* value) equals no rule of the propagated template is not deleted by the
\* propagation and keeps its action, match, value and enabled flag; as this
\* holds of every call, it holds across repeated calls.
C8_MultiPathKeepsUnmatched ==
    Propagated =>
        \A r \in MultiPathResources : \A rule \in preRules[r] :
            Triple(rule) \notin TemplateTriples(lastOp.templateId)
                => Survives(rule, resourceRules[r])

\* C8 witness: a second propagation in a row through the multi-template
\* path that deleted a matching rule, kept a rule of another triple and
\* renumbered it
C8_Witness ==
    /\ Propagated /\ prevOp = lastOp
    /\ \E r \in MultiPathResources :
           /\ \E rule \in preRules[r] :
                  /\ Triple(rule) \notin TemplateTriples(lastOp.templateId)
                  /\ Survives(rule, resourceRules[r])
                  /\ rule \notin resourceRules[r]
           /\ \E rule \in preRules[r] :
                  \A kept \in resourceRules[r] : kept.ruleId # rule.ruleId

\* a manually added rule of resource r: its (action, match, value) equals
\* no rule of any template assigned to r
Manual(rule, r) ==
    \A t \in AssignedTemplates(r) : Triple(rule) \notin TemplateTriples(t)

\* C9: a propagation deletes no manually added rule of an assigned
\* resource, whichever path that resource takes
C9_ManualRulesKept ==
    Propagated =>
        \A r \in AssignedResources(lastOp.templateId) :
            \A rule \in preRules[r] :
                Manual(rule, r) => Survives(rule, resourceRules[r])

\* the rows of a resource as (action, match, value, enabled, priority)
RowView(rows) ==
    {[action |-> rule.action, match |-> rule.match, value |-> rule.value,
      enabled |-> rule.enabled, priority |-> rule.priority] : rule \in rows}

\* C10: after two propagations of the same template in a row, every
\* assigned resource holds the same rows, and as many, as after the first
C10_PropagateTwiceSameRows ==
    (Propagated /\ prevOp = lastOp) =>
        \A r \in AssignedResources(lastOp.templateId) :
            /\ RowView(resourceRules[r]) = RowView(preRules[r])
            /\ Cardinality(resourceRules[r]) = Cardinality(preRules[r])

(***************************************************************************)
(* The priority helpers.  A scope is named as the code names it, by two    *)
(* optional arguments: resourceId (0 when it is not given: `if             *)
(* (resourceId)` takes 0 and undefined alike) and templateId ("" when it   *)
(* is not given).  A list of rules is the set of its rows.  Each helper    *)
(* issues at most one UPDATE statement; the model takes the statement as   *)
(* one step of the store.  A helper's result is [rules, templateRules,     *)
(* resourceRules]: the list it returns and the two tables as it leaves     *)
(* them.                                                                   *)
(***************************************************************************)
NoResource == 0
NoTemplate == ""

\* an update that moves only the last of the rows it selects
UpdatePriorities_OneRow(table, id, from, delta) ==
    [table EXCEPT ![id] =
        {[row EXCEPT !.priority =
              IF @ >= from /\ \A other \in table[id] :
                                 other.priority >= from
                                     => other.ruleId <= row.ruleId
              THEN @ + delta ELSE @] : row \in table[id]}]

\* update <table> set priority = priority + delta
\*     where <scope column> = id and priority >= from
UpdatePriorities(table, id, from, delta) ==
    [table EXCEPT ![id] =
        {[row EXCEPT !.priority = IF @ >= from THEN @ + delta ELSE @] :
            row \in table[id]}]

\* a resolvePriorityConflicts that shifts only the rules above newPriority
resolvePriorityConflicts_Above(tr, rr, rules, newPriority, resourceId, templateId) ==
    [rules |-> {[rule EXCEPT !.priority =
                    IF @ > newPriority THEN @ + 1 ELSE @] : rule \in rules},
     templateRules |->
         IF resourceId = NoResource /\ templateId # NoTemplate
         THEN UpdatePriorities(tr, templateId, newPriority + 1, 1) ELSE tr,
     resourceRules |->
         IF resourceId # NoResource
         THEN UpdatePriorities(rr, resourceId, newPriority + 1, 1) ELSE rr]

\* a resolvePriorityConflicts that shifts the list it returns and issues
\* no UPDATE
resolvePriorityConflicts_ListOnly(tr, rr, rules, newPriority, resourceId, templateId) ==
    [rules |-> {[rule EXCEPT !.priority =
                    IF @ >= newPriority THEN @ + 1 ELSE @] : rule \in rules},
     templateRules |-> tr,
     resourceRules |-> rr]

resolvePriorityConflicts(tr, rr, rules, newPriority, resourceId, templateId) ==
    LET rulesToShift == {rule \in rules : rule.priority >= newPriority}
    IN  IF rulesToShift = {}
        THEN [rules |-> rules, templateRules |-> tr, resourceRules |-> rr]
        ELSE [rules |-> {[rule EXCEPT !.priority =
                             IF @ >= newPriority THEN @ + 1 ELSE @] :
                            rule \in rules},
              templateRules |->
                  IF resourceId = NoResource /\ templateId # NoTemplate
                  THEN UpdatePriorities(tr, templateId, newPriority, 1)
                  ELSE tr,
              resourceRules |->
                  IF resourceId # NoResource
                  THEN UpdatePriorities(rr, resourceId, newPriority, 1)
                  ELSE rr]

\* a reorderPriorities that leaves the store as it is
reorderPriorities_ListOnly(tr, rr, rules, deletedPriority, resourceId, templateId) ==
    [rules |-> {[rule EXCEPT !.priority =
                    IF @ > deletedPriority THEN @ - 1 ELSE @] : rule \in rules},
     templateRules |-> tr,
     resourceRules |-> rr]

reorderPriorities(tr, rr, rules, deletedPriority, resourceId, templateId) ==
    LET rulesToShift == {rule \in rules : rule.priority > deletedPriority}
    IN  IF rulesToShift = {}
        THEN [rules |-> rules, templateRules |-> tr, resourceRules |-> rr]
        ELSE [rules |-> {[rule EXCEPT !.priority =
                             IF @ > deletedPriority THEN @ - 1 ELSE @] :
                            rule \in rules},
              templateRules |->
                  IF resourceId = NoResource /\ templateId # NoTemplate
                  THEN UpdatePriorities(tr, templateId, deletedPriority + 1, -1)
                  ELSE tr,
              resourceRules |->
                  IF resourceId # NoResource
                  THEN UpdatePriorities(rr, resourceId, deletedPriority + 1, -1)
                  ELSE rr]

\* select max(priority) ...; result[0]?.maxPriority || 0: no row, or a
\* maximum of 0, gives 0
MaxPriorityOrZero(rows) ==
    IF rows = {} THEN 0 ELSE Max({row.priority : row \in rows})

\* a getNextPriority that returns the number of rules plus one
getNextPriority_Count(tr, rr, resourceId, templateId) ==
    IF resourceId # NoResource THEN Cardinality(rr[resourceId]) + 1
    ELSE IF templateId # NoTemplate THEN Cardinality(tr[templateId]) + 1
    ELSE 1

getNextPriority(tr, rr, resourceId, templateId) ==
    LET maxPriority ==
            IF resourceId # NoResource THEN MaxPriorityOrZero(rr[resourceId])
            ELSE IF templateId # NoTemplate
                 THEN MaxPriorityOrZero(tr[templateId])
            ELSE 0
    IN  maxPriority + 1

(***************************************************************************)
(* validateRuleConsistency.  The list is a sequence of rules whose value   *)
(* is a sequence of characters; the result is [isValid, conflicts], the    *)
(* conflicts a sequence of messages.                                       *)
(***************************************************************************)
MatchText(match) ==
    CASE match = "IP" -> <<"I", "P">>
      [] match = "CIDR" -> <<"C", "I", "D", "R">>
      [] match = "PATH" -> <<"P", "A", "T", "H">>

\* `${rule.match}:${rule.value}`
RuleKey(rule) == MatchText(rule.match) \o <<":">> \o rule.value

\* the loop over sortedRules with ruleMap: a rule is compared with the
\* first rule of its key, which is the one the map holds
RECURSIVE ConflictsFrom(_, _)
ConflictsFrom(sortedRules, ruleMap) ==
    IF sortedRules = <<>> THEN <<>>
    ELSE LET rule == Head(sortedRules)
             key  == RuleKey(rule)
             held == {existingRule \in Range(ruleMap) :
                         RuleKey(existingRule) = key}
         IN  IF held # {}
             THEN LET existingRule == CHOOSE e \in held : TRUE
                  IN  (IF existingRule.action # rule.action
                       THEN <<[kind |-> "conflict", key |-> key,
                               first |-> existingRule.action,
                               second |-> rule.action]>>
                       ELSE <<>>)
                      \o ConflictsFrom(Tail(sortedRules), ruleMap)
             ELSE ConflictsFrom(Tail(sortedRules), Append(ruleMap, rule))

\* a validation that compares the actions of rules of the same match type,
\* whatever their value
validateRuleConsistency_ByMatch(rules) ==
    LET priorities == [i \in DOMAIN rules |-> rules[i].priority]
    IN  [isValid |->
            /\ Len(priorities) = Cardinality(Range(priorities))
            /\ \A i, j \in DOMAIN rules :
                   rules[i].match = rules[j].match
                       => rules[i].action = rules[j].action,
         conflicts |-> <<>>]

validateRuleConsistency(rules) ==
    LET order       == SortByPriority(rules)
        sortedRules == [k \in DOMAIN order |-> rules[order[k]]]
        priorities  == [k \in DOMAIN sortedRules |-> sortedRules[k].priority]
        duplicates  == IF Len(priorities) # Cardinality(Range(priorities))
                       THEN <<[kind |-> "duplicate priorities"]>>
                       ELSE <<>>
        conflicts   == duplicates \o ConflictsFrom(sortedRules, <<>>)
    IN  [isValid |-> conflicts = <<>>, conflicts |-> conflicts]

(***************************************************************************)
(* The request handlers createTemplateRule, updateTemplateRule and         *)
(* deleteTemplateRule, one request at a time, each from its first query    *)
(* to its response, the propagation it awaits included.  The organisation  *)
(* and the template of the request exist and the value is valid for its    *)
(* match type; a request for a rule that the template does not hold is     *)
(* answered 404 and changes nothing.  lastOp records the request, the      *)
(* response status and the template rules as they were before it.          *)
(***************************************************************************)
\* the requests of one behaviour
MaxRequests == 3

NoPriority == [given |-> FALSE]
GivenPriority(p) == [given |-> TRUE, v |-> p]

\* select ... order by priority: any order of the rows that is sorted by
\* priority (rows of equal priority come in an order the store chooses)
PriorityOrders(rows) ==
    {s \in Orders(rows) :
        \A i, j \in DOMAIN s : i < j => s[i].priority <= s[j].priority}

\* the awaited propagateTemplateToResources(templateId), on tables tr and rr
PropagatedRules(tr, rr, templateId) ==
    {PropagateLoop(order, templateRulesList, rr, nextRuleId) :
        order \in Orders(AssignedResources(templateId)),
        templateRulesList \in PriorityOrders(tr[templateId])}

PropagationInserts(tr, templateId) ==
    Cardinality(tr[templateId]) * Cardinality(AssignedResources(templateId))

createTemplateRule(templateId, kind, priority) ==
    LET existingRules == templateRules[templateId]
        finalPriority ==
            IF priority.given THEN priority.v
            ELSE getNextPriority(templateRules, resourceRules,
                                 NoResource, templateId)
        resolved == resolvePriorityConflicts(templateRules, resourceRules,
                        existingRules, finalPriority, NoResource, templateId)
        newRule == [action |-> kind.action, match |-> kind.match,
                    value |-> kind.value, priority |-> finalPriority,
                    enabled |-> kind.enabled]
        consistencyCheck ==
            validateRuleConsistency(
                OrderByPriority(resolved.rules) \o <<newRule>>)
        inserted ==
            [resolved.templateRules EXCEPT ![templateId] =
                @ \cup {[ruleId |-> nextTemplateRuleId,
                         action |-> kind.action, match |-> kind.match,
                         value |-> kind.value, priority |-> finalPriority,
                         enabled |-> kind.enabled]}]
        op == [op |-> "createTemplateRule", templateId |-> templateId,
               priority |-> priority, finalPriority |-> finalPriority,
               ruleId |-> nextTemplateRuleId, before |-> templateRules]
    IN  /\ requests < MaxRequests
        /\ requests' = requests + 1
        /\ prevOp' = lastOp
        /\ preRules' = resourceRules
        /\ UNCHANGED <<resourceTemplates, call, ret>>
        /\ IF ~consistencyCheck.isValid
           THEN /\ templateRules' = resolved.templateRules
                /\ lastOp' = [op EXCEPT !.ruleId = 0] @@ [status |-> 400]
                /\ UNCHANGED <<resourceRules, nextRuleId, nextTemplateRuleId>>
           ELSE /\ templateRules' = inserted
                /\ nextTemplateRuleId' = nextTemplateRuleId + 1
                /\ resourceRules' \in
                       PropagatedRules(inserted, resolved.resourceRules,
                                       templateId)
                /\ nextRuleId' =
                       nextRuleId + PropagationInserts(inserted, templateId)
                /\ lastOp' = op @@ [status |-> 201]

\* .set(updateData): the fields the request carries replace the row's
ApplyUpdate(row, updateData) ==
    [f \in DOMAIN row |->
        IF f \in DOMAIN updateData THEN updateData[f] ELSE row[f]]

updateTemplateRule(templateId, ruleId, updateData) ==
    /\ requests < MaxRequests
    /\ requests' = requests + 1
    /\ \E existingRule \in templateRules[templateId] :
           existingRule.ruleId = ruleId
    /\ templateRules' =
           [templateRules EXCEPT ![templateId] =
               {IF row.ruleId = ruleId THEN ApplyUpdate(row, updateData)
                ELSE row : row \in @}]
    /\ prevOp' = lastOp
    /\ preRules' = resourceRules
    /\ lastOp' = [op |-> "updateTemplateRule", templateId |-> templateId,
                  ruleId |-> ruleId, updateData |-> updateData,
                  before |-> templateRules, status |-> 200]
    /\ UNCHANGED <<resourceRules, resourceTemplates, nextRuleId,
                   nextTemplateRuleId, call, ret>>

deleteTemplateRule(templateId, ruleId) ==
    /\ requests < MaxRequests
    /\ requests' = requests + 1
    /\ \E existingRule \in templateRules[templateId] :
           /\ existingRule.ruleId = ruleId
           /\ LET allRules == templateRules[templateId]
                  deleted == [templateRules EXCEPT ![templateId] =
                                 @ \ {existingRule}]
                  reordered == reorderPriorities(deleted, resourceRules,
                                   allRules, existingRule.priority,
                                   NoResource, templateId)
              IN  /\ templateRules' = reordered.templateRules
                  /\ resourceRules' \in
                         PropagatedRules(reordered.templateRules,
                                         reordered.resourceRules, templateId)
                  /\ nextRuleId' =
                         nextRuleId
                             + PropagationInserts(reordered.templateRules,
                                                  templateId)
                  /\ lastOp' = [op |-> "deleteTemplateRule",
                                templateId |-> templateId, ruleId |-> ruleId,
                                deletedRule |-> existingRule,
                                before |-> templateRules, status |-> 200]
    /\ prevOp' = lastOp
    /\ preRules' = resourceRules
    /\ UNCHANGED <<resourceTemplates, nextTemplateRuleId, call, ret>>

(***************************************************************************)
(* Requests on template t1, which starts empty, as does every resource.    *)
(* Resource 1 has t1 assigned, alone or with the (empty) template t2;      *)
(* resource 2 may have t1 too.  Two of the rules a request may carry have  *)
(* the same match and value and opposite actions.                          *)
(***************************************************************************)
Str_1_1 == <<"1", ".", "1">>
Str_slash_a == <<"/", "a">>

\* the priorities a request may carry
CrudPriorities == {1, 2, 3}

CrudKinds ==
    { [action |-> "ACCEPT", match |-> "IP", value |-> Str_1_1,
       enabled |-> TRUE],
      [action |-> "DROP", match |-> "IP", value |-> Str_1_1,
       enabled |-> TRUE],
      [action |-> "ACCEPT", match |-> "PATH", value |-> Str_slash_a,
       enabled |-> FALSE] }

CrudUpdates ==
    {[priority |-> 1], [action |-> "DROP"], [enabled |-> FALSE],
          [match |-> "PATH", value |-> Str_slash_a]}

CrudAssignments ==
    { {<<1, "t1">>},
      {<<1, "t1">>, <<1, "t2">>},
      {<<1, "t1">>, <<1, "t2">>, <<2, "t1">>} }

InitCrud ==
    /\ templateRules = EmptyTemplateRules
    /\ resourceRules = EmptyResourceRules
    /\ resourceTemplates \in CrudAssignments
    /\ nextRuleId = 1
    /\ nextTemplateRuleId = 1
    /\ requests = 0
    /\ lastOp = NoOp
    /\ prevOp = NoOp
    /\ preRules = EmptyResourceRules
    /\ call = [fn |-> "none"]
    /\ ret = NotReturned

CreateRule ==
    \E kind \in CrudKinds,
       priority \in {NoPriority} \cup {GivenPriority(p) : p \in CrudPriorities} :
        createTemplateRule("t1", kind, priority)

UpdateRule ==
    \E ruleId \in 1..MaxRequests, updateData \in CrudUpdates :
        updateTemplateRule("t1", ruleId, updateData)

DeleteRule ==
    \E ruleId \in 1..MaxRequests : deleteTemplateRule("t1", ruleId)

NextCrud == CreateRule \/ UpdateRule \/ DeleteRule

SpecCrud == InitCrud /\ [][NextCrud]_vars

\* what a rule says: its row without ruleId and priority
Content(rule) == [action |-> rule.action, match |-> rule.match,
                  value |-> rule.value, enabled |-> rule.enabled]
Contents(rows) == {Content(rule) : rule \in rows}

Answered(name) == lastOp.op = name

\* C11: once deleteTemplateRule has answered (its propagation has then
\* completed), every resource the template is assigned to, with one or with
\* several templates, holds the template's current rules and nothing else
\* derived from it; no resource here holds a rule of another origin.
C11_DeletedRuleLeavesResources ==
    Answered("deleteTemplateRule") =>
        \A r \in AssignedResources(lastOp.templateId) :
            Contents(resourceRules[r])
                = Contents(templateRules[lastOp.templateId])

\* the priorities of rows are exactly 1..N, N the number of rows
OneToN(rows) == {rule.priority : rule \in rows} = 1..Cardinality(rows)

\* C12: after any sequence of answered createTemplateRule, updateTemplateRule
\* and deleteTemplateRule requests the priorities of every template are
\* pairwise distinct and exactly 1..N.
C12_TemplatePrioritiesOneToN ==
    \A t \in Templates : OneToN(templateRules[t])

(***************************************************************************)
(* Calls of the priority helpers on a store.  The scope of the call holds  *)
(* up to MaxShiftRules rules at any priorities (update requests can leave  *)
(* gaps and duplicates); the other template and the other resource hold    *)
(* rules on both sides of every priority a call may name.  The list passed *)
(* is the one the callers pass: the rows persisted for the scope, just     *)
(* read.  lastOp.before is the store as the call found it.                 *)
(***************************************************************************)
MaxShiftRules == 3

ShiftPriorities == {1, 2, 3}
\* the priority a call names
CallPriorities == {0, 1, 2, 3, 4}

\* rows ruleId firstId.. with the priorities of the list
RowsAt(priorities, firstId) ==
    {[ruleId |-> firstId + i - 1, action |-> "ACCEPT", match |-> "IP",
      value |-> Str_1_1, priority |-> priorities[i], enabled |-> TRUE] :
        i \in DOMAIN priorities}

\* the scopes a call may name: template t1 or resource 1
ShiftScopes == {[resourceId |-> NoResource, templateId |-> "t1"],
                [resourceId |-> 1, templateId |-> NoTemplate]}

ShiftCalls ==
    [fn : {"resolvePriorityConflicts", "reorderPriorities"},
     scope : ShiftScopes, priority : CallPriorities]
    \cup [fn : {"getNextPriority"}, scope : ShiftScopes]

InitShift ==
    /\ \E priorities \in SeqsUpTo(ShiftPriorities, MaxShiftRules) :
           /\ templateRules = [t \in Templates |->
                  IF t = "t1" THEN RowsAt(priorities, 1)
                  ELSE RowsAt(<<1, 2, 3>>, MaxShiftRules + 1)]
           /\ resourceRules = [r \in Resources |->
                  IF r = 1 THEN RowsAt(priorities, 1)
                  ELSE RowsAt(<<1, 2, 3>>, MaxShiftRules + 1)]
    /\ resourceTemplates = {}
    /\ nextRuleId = MaxShiftRules + 4
    /\ nextTemplateRuleId = MaxShiftRules + 4
    /\ requests = 0
    /\ lastOp = NoOp
    /\ prevOp = NoOp
    /\ preRules = resourceRules
    /\ call \in ShiftCalls
    /\ ret = NotReturned

\* the rows persisted for the scope
ScopeRows(tr, rr, scope) ==
    IF scope.resourceId # NoResource THEN rr[scope.resourceId]
    ELSE tr[scope.templateId]

StoreNow == [templateRules |-> templateRules, resourceRules |-> resourceRules]

CallResolvePriorityConflicts ==
    /\ call.fn = "resolvePriorityConflicts"
    /\ ~ret.done
    /\ LET result == resolvePriorityConflicts(templateRules, resourceRules,
                         ScopeRows(templateRules, resourceRules, call.scope),
                         call.priority, call.scope.resourceId,
                         call.scope.templateId)
       IN  /\ templateRules' = result.templateRules
           /\ resourceRules' = result.resourceRules
           /\ ret' = Returned(result.rules)
    /\ lastOp' = [op |-> call.fn, before |-> StoreNow]
    /\ prevOp' = lastOp
    /\ preRules' = resourceRules
    /\ UNCHANGED <<resourceTemplates, nextRuleId, nextTemplateRuleId,
                   requests, call>>

CallReorderPriorities ==
    /\ call.fn = "reorderPriorities"
    /\ ~ret.done
    /\ LET result == reorderPriorities(templateRules, resourceRules,
                         ScopeRows(templateRules, resourceRules, call.scope),
                         call.priority, call.scope.resourceId,
                         call.scope.templateId)
       IN  /\ templateRules' = result.templateRules
           /\ resourceRules' = result.resourceRules
           /\ ret' = Returned(result.rules)
    /\ lastOp' = [op |-> call.fn, before |-> StoreNow]
    /\ prevOp' = lastOp
    /\ preRules' = resourceRules
    /\ UNCHANGED <<resourceTemplates, nextRuleId, nextTemplateRuleId,
                   requests, call>>

CallGetNextPriority ==
    /\ call.fn = "getNextPriority"
    /\ ~ret.done
    /\ ret' = Returned(getNextPriority(templateRules, resourceRules,
                           call.scope.resourceId, call.scope.templateId))
    /\ lastOp' = [op |-> call.fn, before |-> StoreNow]
    /\ prevOp' = lastOp
    /\ UNCHANGED <<templateRules, resourceRules, resourceTemplates,
                   nextRuleId, nextTemplateRuleId, requests, preRules, call>>

NextShift ==
    \/ CallResolvePriorityConflicts
    \/ CallReorderPriorities
    \/ CallGetNextPriority

SpecShift == InitShift /\ [][NextShift]_vars

ShiftReturned(fn) == call.fn = fn /\ ret.done

\* rows with the priority of those at or above `from` moved by delta
Moved(rows, from, delta) ==
    {[rule EXCEPT !.priority = IF @ >= from THEN @ + delta ELSE @] :
        rule \in rows}

\* every template and resource but the scope of the call is as it was
OtherScopesUntouched ==
    /\ \A t \in Templates :
           (call.scope.resourceId # NoResource \/ t # call.scope.templateId)
               => templateRules[t] = lastOp.before.templateRules[t]
    /\ \A r \in Resources :
           r # call.scope.resourceId
               => resourceRules[r] = lastOp.before.resourceRules[r]

\* C13: resolvePriorityConflicts(rules, p, scope) raises by exactly 1 the
\* priority of every rule of the scope with priority >= p, in the list it
\* returns and in the store, and changes no rule with priority < p and no
\* rule of another template or resource.
C13_ResolveShiftsFromPriority ==
    ShiftReturned("resolvePriorityConflicts") =>
        LET was == ScopeRows(lastOp.before.templateRules,
                             lastOp.before.resourceRules, call.scope)
        IN  /\ ret.value = Moved(was, call.priority, 1)
            /\ ScopeRows(templateRules, resourceRules, call.scope)
                   = Moved(was, call.priority, 1)
            /\ OtherScopesUntouched

\* C13 witness: a call that moved a rule of the scope and left another one,
\* while the other template and resource hold rules at or above p
C13_Witness ==
    /\ ShiftReturned("resolvePriorityConflicts")
    /\ \E rule \in ret.value : rule.priority > call.priority
    /\ \E rule \in ret.value : rule.priority < call.priority
    /\ ret.value # ScopeRows(lastOp.before.templateRules,
                             lastOp.before.resourceRules, call.scope)
    /\ \E rule \in templateRules["t2"] : rule.priority >= call.priority
    /\ \E rule \in resourceRules[2] : rule.priority >= call.priority

\* the template rules before and after the request lastOp records
RulesBefore == lastOp.before[lastOp.templateId]
RulesAfter == templateRules[lastOp.templateId]

\* C14: createTemplateRule with an explicit priority p, 1 <= p <= N + 1, on
\* a template whose priorities are exactly 1..N ends with priorities exactly
\* 1..N+1: the new rule is at p and the former rules at p or above have each
\* moved up by one, the others not at all.
C14_InsertAtPriority ==
    (/\ Answered("createTemplateRule")
     /\ lastOp.priority.given
     /\ OneToN(RulesBefore)
     /\ lastOp.priority.v \in 1..(Cardinality(RulesBefore) + 1))
        => /\ OneToN(RulesAfter)
           /\ Cardinality(RulesAfter) = Cardinality(RulesBefore) + 1
           /\ \E new \in RulesAfter :
                  /\ new.priority = lastOp.priority.v
                  /\ RulesAfter \ {new}
                         = Moved(RulesBefore, lastOp.priority.v, 1)

\* C15: deleteTemplateRule of the rule at priority d lowers by exactly 1 the
\* priority of every remaining rule of the template with priority > d and
\* leaves the rules with priority < d unchanged, so that a template with
\* priorities exactly 1..N has priorities exactly 1..N-1 afterwards.
C15_DeleteClosesGap ==
    Answered("deleteTemplateRule") =>
        LET remaining == RulesBefore \ {lastOp.deletedRule}
        IN  /\ RulesAfter = Moved(remaining, lastOp.deletedRule.priority + 1, -1)
            /\ OneToN(RulesBefore) =>
                   /\ OneToN(RulesAfter)
                   /\ Cardinality(RulesAfter) = Cardinality(RulesBefore) - 1

C15_Witness ==
    /\ Answered("deleteTemplateRule")
    /\ OneToN(RulesBefore)
    /\ Cardinality(RulesBefore) = 2
    /\ lastOp.deletedRule.priority = 1
    /\ \E rule \in RulesAfter :
           /\ rule.priority = 1
           /\ [rule EXCEPT !.priority = 2] \in RulesBefore

\* the rows persisted for the scope of the call
CallRows == ScopeRows(templateRules, resourceRules, call.scope)

\* C16: getNextPriority(scope) returns the largest priority persisted in
\* the scope plus 1, and 1 when the scope has no rules; the value is greater
\* than every priority of the scope, and resolvePriorityConflicts called
\* with it, as a create without an explicit priority calls it, shifts no
\* rule in the list or in the store.
C16_NextPriorityIsMaxPlusOne ==
    ShiftReturned("getNextPriority") =>
        /\ CallRows = {} => ret.value = 1
        /\ CallRows # {} =>
               /\ \E rule \in CallRows : ret.value = rule.priority + 1
               /\ \A rule \in CallRows : ret.value > rule.priority
        /\ resolvePriorityConflicts(templateRules, resourceRules, CallRows,
               ret.value, call.scope.resourceId, call.scope.templateId)
               = [rules |-> CallRows, templateRules |-> templateRules,
                  resourceRules |-> resourceRules]

C16_Witness ==
    /\ ShiftReturned("getNextPriority")
    /\ {rule.priority : rule \in CallRows} = {1, 3}
    /\ Cardinality(CallRows) = 2
    /\ ret.value = 4

(***************************************************************************)
(* Calls of validateRuleConsistency on a list of up to MaxValidateRules    *)
(* rules, in any order, with equal and different priorities, keys and      *)
(* actions.                                                                *)
(***************************************************************************)
MaxValidateRules == 3

Str_1_2 == <<"1", ".", "2">>

ValidateRuleKinds ==
    {[ruleId |-> 0, action |-> action, match |-> key[1], value |-> key[2],
      priority |-> priority, enabled |-> TRUE] :
        action \in {"ACCEPT", "DROP"},
        key \in {<<"IP", Str_1_1>>, <<"PATH", Str_1_1>>, <<"IP", Str_1_2>>},
        priority \in {1, 2, 3}}

InitValidate ==
    /\ StoreIdle
    /\ call \in [fn : {"validateRuleConsistency"},
                 rules : SeqsUpTo(ValidateRuleKinds, MaxValidateRules)]
    /\ ret = NotReturned

CallValidateRuleConsistency ==
    /\ call.fn = "validateRuleConsistency"
    /\ ~ret.done
    /\ ret' = Returned(validateRuleConsistency(call.rules))
    /\ UNCHANGED <<storeVars, call>>

NextValidate == CallValidateRuleConsistency

SpecValidate == InitValidate /\ [][NextValidate]_vars

\* two rules of the list have the same priority
SamePriority(rules) ==
    \E i, j \in DOMAIN rules : i # j /\ rules[i].priority = rules[j].priority

\* two rules of the list have the same (match, value) and different actions
SameKeyOtherAction(rules) ==
    \E i, j \in DOMAIN rules :
        /\ rules[i].match = rules[j].match
        /\ rules[i].value = rules[j].value
        /\ rules[i].action # rules[j].action

\* C17: validateRuleConsistency(rules) returns a result, and its isValid is
\* false exactly when two rules of the list have the same priority or two
\* rules have the same (match, value) and different actions.
C17_ValidExactly ==
    (call.fn = "validateRuleConsistency" /\ ret.done) =>
        /\ ret.value.isValid \in BOOLEAN
        /\ ret.value.isValid
               = ~(SamePriority(call.rules) \/ SameKeyOtherAction(call.rules))

C17_Witness ==
    /\ call.fn = "validateRuleConsistency"
    /\ ret.done
    /\ Len(call.rules) = 3
    /\ ~SamePriority(call.rules)
    /\ call.rules[1].priority = 3
    /\ SameKeyOtherAction(call.rules)
    /\ ~ret.value.isValid

(***************************************************************************)
(* propagateTemplateToResources with one storage operation that fails.     *)
(* The call is the sequence of its awaited storage operations; a step      *)
(* records the rows of the resource once the operation has succeeded,      *)
(* whether it writes, and whether its failure is caught without a rethrow. *)
(* The operation numbered failAt throws; 0 names no operation.             *)
(***************************************************************************)
Step(rows, write, caught) == [rows |-> rows, write |-> write, caught |-> caught]

\* the k-th smallest element of a set of numbers
KthOf(S, k) == CHOOSE i \in S : Cardinality({j \in S : j <= i}) = k

\* the insert of the new rows after the rows `onto`, when the template has
\* rules
InsertSteps(onto, templateRulesList, base, firstId) ==
    IF Len(templateRulesList) > 0
    THEN <<Step(onto \cup NewRules(templateRulesList, base, firstId),
                TRUE, FALSE)>>
    ELSE <<>>

\* the rows once the steps are done
RowsAfter(rows, steps) ==
    IF steps = <<>> THEN rows ELSE steps[Len(steps)].rows

\* the rules in order with the updates of the loop made up to position upTo
AfterUpdates(rules, need, upTo) ==
    {IF i <= upTo /\ i \in need
     THEN [rules[i] EXCEPT !.priority = i] ELSE rules[i] : i \in DOMAIN rules}

\* the select of reorderResourceRules has returned rules: one update for
\* each row whose priority is not its position, in position order
ReorderSteps(rows, rules) ==
    LET need == {i \in DOMAIN rules : rules[i].priority # i}
    IN  <<Step(rows, FALSE, FALSE)>>
            \o [k \in 1..Cardinality(need) |->
                   Step(AfterUpdates(rules, need, KthOf(need, k)),
                        TRUE, FALSE)]

reorderResourceRulesSteps(rows) == ReorderSteps(rows, OrderByPriority(rows))

\* the insert, if any, then reorderResourceRules
InsertAndReorderSteps(afterDelete, inserts) ==
    inserts \o reorderResourceRulesSteps(RowsAfter(afterDelete, inserts))

\* the delete of the identified rules, if any, and what follows
AfterIdentifySteps(afterDelete, deleted, templateRulesList, firstId) ==
    (IF deleted THEN <<Step(afterDelete, TRUE, FALSE)>> ELSE <<>>)
        \o InsertAndReorderSteps(afterDelete,
               InsertSteps(afterDelete, templateRulesList,
                           MaxPriorityOrZero(afterDelete), firstId))

\* identifyTemplateRulesInResource has returned templateRulesToUpdate
MultiTemplateSteps(rows, templateRulesList, firstId, templateRulesToUpdate) ==
    LET ruleIdsToRemove ==
            {templateRulesToUpdate[i].ruleId :
                 i \in DOMAIN templateRulesToUpdate}
    IN  AfterIdentifySteps(
            {rule \in rows : rule.ruleId \notin ruleIdsToRemove},
            Len(templateRulesToUpdate) # 0, templateRulesList, firstId)

\* the storage operations of updateResourceWithTemplateRules on the rows of
\* one resource; identifyFailed: the select of
\* identifyTemplateRulesInResource threw, and its catch returned []
updateResourceWithTemplateRulesSteps(rows, assignedCount, templateRulesList, firstId, identifyFailed) ==
    <<Step(rows, FALSE, FALSE)>> \o
    (IF rows = {} THEN InsertSteps({}, templateRulesList, 0, firstId)
     ELSE <<Step(rows, FALSE, FALSE)>> \o
          (IF assignedCount = 1
           THEN <<Step({}, TRUE, FALSE)>>
                    \o InsertSteps({}, templateRulesList, 0, firstId)
           ELSE <<Step(rows, FALSE, TRUE)>>
                    \o MultiTemplateSteps(rows, templateRulesList, firstId,
                           IF identifyFailed THEN <<>>
                           ELSE identifyTemplateRulesInResource(
                                    OrderByPriority(rows),
                                    templateRulesList))))

\* the number of writes among steps from..to
WritesIn(steps, from, to) ==
    Cardinality({i \in from..to : i \in DOMAIN steps /\ steps[i].write})

\* the operation failAt is one whose failure is caught without a rethrow
IsCaught(steps, failAt) == failAt \in DOMAIN steps /\ steps[failAt].caught

\* the steps when the operation failAt throws: the rows left, whether the
\* function threw to its caller, the operations it started, whether the
\* failure happened in it, and the writes it made, in all and after the
\* failure
RunSteps(rows, steps, failAt) ==
    IF failAt \in DOMAIN steps /\ ~steps[failAt].caught
    THEN [rows |-> IF failAt = 1 THEN rows ELSE steps[failAt - 1].rows,
          raised |-> TRUE, ops |-> failAt, failed |-> TRUE,
          writes |-> WritesIn(steps, 1, failAt - 1), late |-> 0]
    ELSE [rows |-> steps[Len(steps)].rows,
          raised |-> FALSE, ops |-> Len(steps),
          failed |-> failAt \in DOMAIN steps,
          writes |-> WritesIn(steps, 1, Len(steps)),
          late |-> IF failAt \in DOMAIN steps
                   THEN WritesIn(steps, failAt + 1, Len(steps)) ELSE 0]

\* updateResourceWithTemplateRules when its operation failAt throws
updateResourceWithTemplateRulesFailing(rows, assignedCount, templateRulesList, firstId, failAt) ==
    RunSteps(rows,
        updateResourceWithTemplateRulesSteps(rows, assignedCount,
            templateRulesList, firstId,
            IsCaught(updateResourceWithTemplateRulesSteps(rows,
                         assignedCount, templateRulesList, firstId, FALSE),
                     failAt)),
        failAt)

\* the for loop of propagateTemplateToResources when the operation failAt
\* of what remains throws; failed: the failure has already happened
RECURSIVE PropagateLoopFailing(_, _, _, _, _, _)

\* one iteration, updateResourceWithTemplateRules having ended as `updated`
PropagateLoopStep(order, templateRulesList, rules, firstId, failAt, failed, updated) ==
    LET now  == [rules EXCEPT ![Head(order)] = updated.rows]
        late == IF failed THEN updated.writes ELSE updated.late
    IN  IF updated.raised
        THEN [rules |-> now, raised |-> TRUE, failed |-> TRUE, late |-> late]
        ELSE [PropagateLoopFailing(Tail(order), templateRulesList, now,
                  firstId + Len(templateRulesList),
                  IF failAt > updated.ops THEN failAt - updated.ops ELSE 0,
                  failed \/ updated.failed)
                 EXCEPT !.late = @ + late]

PropagateLoopFailing(order, templateRulesList, rules, firstId, failAt, failed) ==
    IF order = <<>>
    THEN [rules |-> rules, raised |-> FALSE, failed |-> failed, late |-> 0]
    ELSE PropagateLoopStep(order, templateRulesList, rules, firstId,
             failAt, failed,
             updateResourceWithTemplateRulesFailing(
                 rules[Head(order)],
                 Cardinality(AssignedTemplates(Head(order))),
                 templateRulesList, firstId,
                 IF failed THEN 0 ELSE failAt))

\* the two selects of propagateTemplateToResources, then the loop
propagateTemplateToResourcesFailing(templateId, failAt) ==
    LET assignedResources == AssignedResources(templateId)
        inserted == Cardinality(templateRules[templateId])
                        * Cardinality(assignedResources)
    IN  /\ \E order \in Orders(assignedResources),
              templateRulesList \in PriorityOrders(templateRules[templateId]) :
               \E result \in
                   {IF failAt \in {1, 2}
                    THEN [rules |-> resourceRules, raised |-> TRUE,
                          failed |-> TRUE, late |-> 0]
                    ELSE PropagateLoopFailing(order, templateRulesList,
                             resourceRules, nextRuleId,
                             IF failAt = 0 THEN 0 ELSE failAt - 2, FALSE)} :
                   /\ resourceRules' = result.rules
                   /\ lastOp' = [op |-> "propagate", templateId |-> templateId,
                                 failAt |-> failAt, failed |-> result.failed,
                                 raised |-> result.raised,
                                 late |-> result.late]
        /\ nextRuleId' = nextRuleId + inserted
        /\ preRules' = resourceRules
        /\ prevOp' = lastOp
        /\ UNCHANGED <<templateRules, resourceTemplates, nextTemplateRuleId,
                       call, ret>>

\* the operations of one call that may be the one to fail
MaxStorageOps == 12

FailTemplateKinds ==
    {<<>>,
     <<[action |-> "ACCEPT", match |-> "IP", value |-> "1.1.1.1",
        enabled |-> TRUE]>>,
     <<[action |-> "ACCEPT", match |-> "IP", value |-> "1.1.1.1",
        enabled |-> TRUE],
       [action |-> "DROP", match |-> "PATH", value |-> "/api/*",
        enabled |-> TRUE]>>}

\* the first resource holds nothing, a rule the template also holds, or
\* that rule after a rule of another origin
FailResourceKinds ==
    {<<>>,
     <<[action |-> "ACCEPT", match |-> "IP", value |-> "1.1.1.1",
        enabled |-> TRUE]>>,
     <<[action |-> "DROP", match |-> "IP", value |-> "10.0.0.1",
        enabled |-> TRUE],
       [action |-> "ACCEPT", match |-> "IP", value |-> "1.1.1.1",
        enabled |-> TRUE]>>}

\* the template t1 is assigned to one or both resources, alone or with t2
FailAssignments ==
    {{<<1, "t1">>},
     {<<1, "t1">>, <<1, "t2">>},
     {<<1, "t1">>, <<2, "t1">>},
     {<<1, "t1">>, <<1, "t2">>, <<2, "t1">>},
     {<<1, "t1">>, <<1, "t2">>, <<2, "t1">>, <<2, "t2">>}}

InitFail ==
    /\ \E tk \in FailTemplateKinds :
           templateRules = [t \in Templates |->
                               IF t = "t1" THEN RowsOf(tk, 1, 1)
                               ELSE OtherTemplateRules]
    /\ \E k1 \in FailResourceKinds, k2 \in SecondResourceKinds,
          stride \in {1, 2} :
           /\ resourceRules = [r \in Resources |->
                                  IF r = 1 THEN RowsOf(k1, 1, stride)
                                  ELSE RowsOf(k2, Len(k1) + 1, 1)]
           /\ nextRuleId = Len(k1) + Len(k2) + 1
    /\ nextTemplateRuleId = MaxTemplateRules + 2
    /\ requests = 0
    /\ resourceTemplates \in FailAssignments
    /\ lastOp = NoOp
    /\ prevOp = NoOp
    /\ preRules = resourceRules
    /\ call = [fn |-> "none"]
    /\ ret = NotReturned

\* one call for each behaviour
PropagateFailing ==
    /\ requests = 0
    /\ requests' = 1
    /\ \E failAt \in 0..MaxStorageOps :
           propagateTemplateToResourcesFailing("t1", failAt)

NextFail == PropagateFailing

SpecFail == InitFail /\ [][NextFail]_vars

\* C18: when a storage operation of propagateTemplateToResources fails, the
\* reads of identifyTemplateRulesInResource included, the call raises to
\* its caller and makes no write after the failure, on the resource it was
\* processing or on a later one.
C18_FailureRaises ==
    (lastOp.op = "propagate" /\ lastOp.failed) =>
        /\ lastOp.raised
        /\ lastOp.late = 0

\* C19: once updateTemplateRule has answered 200, every resource the
\* template is assigned to holds the updated rule, with its new action,
\* match, value and enabled flag, and holds the content the rule had before
\* only if another rule of its templates has that content.
C19_UpdateIsPropagated ==
    (Answered("updateTemplateRule") /\ lastOp.status = 200) =>
        \A r \in AssignedResources(lastOp.templateId) :
            \A old \in RulesBefore, new \in RulesAfter :
                (old.ruleId = lastOp.ruleId /\ new.ruleId = lastOp.ruleId) =>
                    /\ Content(new) \in Contents(resourceRules[r])
                    /\ Content(old) \in Contents(resourceRules[r]) =>
                           \E t \in AssignedTemplates(r) :
                               Content(old) \in Contents(templateRules[t])

\* the rows persisted for the scope when the call was made
CallRowsBefore ==
    ScopeRows(lastOp.before.templateRules, lastOp.before.resourceRules,
              call.scope)

\* no two rows have the same priority
NoDuplicatePriority(rows) ==
    \A a, b \in rows : a # b => a.priority # b.priority

\* the rows with every targeted row shifted: those at or above newPriority
\* up, those above deletedPriority down
FullyShifted ==
    IF call.fn = "resolvePriorityConflicts"
    THEN Moved(CallRowsBefore, call.priority, 1)
    ELSE Moved(CallRowsBefore, call.priority + 1, -1)

ShiftCallReturned ==
    ShiftReturned("resolvePriorityConflicts")
        \/ ShiftReturned("reorderPriorities")

\* the returned list is the persisted one, and every targeted row is shifted
ReturnedIsPersisted ==
    /\ ret.value = CallRows
    /\ CallRows = FullyShifted

\* C20, as stated: when resolvePriorityConflicts or reorderPriorities is
\* called with the rules persisted for a scope, the list it returns has the
\* persisted priorities, every targeted row is shifted and none only in
\* part, and if the input had no duplicate priorities neither the returned
\* list nor the store has any.
C20_ShiftKeepsDistinct ==
    ShiftCallReturned =>
        /\ ReturnedIsPersisted
        /\ NoDuplicatePriority(CallRowsBefore) =>
               /\ NoDuplicatePriority(ret.value)
               /\ NoDuplicatePriority(CallRows)

\* C20, amended: the same, the absence of duplicates being promised for
\* reorderPriorities only when no persisted rule of the scope has the
\* priority deletedPriority, which is the case once the rule that had it
\* is deleted.
C20_ShiftKeepsDistinctAfterDelete ==
    ShiftCallReturned =>
        /\ ReturnedIsPersisted
        /\ (/\ NoDuplicatePriority(CallRowsBefore)
            /\ call.fn = "reorderPriorities" =>
                   \A rule \in CallRowsBefore : rule.priority # call.priority)
               => /\ NoDuplicatePriority(ret.value)
                  /\ NoDuplicatePriority(CallRows)

C20_Witness ==
    /\ ShiftReturned("reorderPriorities")
    /\ {rule.priority : rule \in CallRowsBefore} = {1, 3}
    /\ Cardinality(CallRowsBefore) = 2
    /\ call.priority = 2
    /\ {rule.priority : rule \in ret.value} = {1, 2}
    /\ CallRows = ret.value

\* the rules of resource r that the last propagation removed
Removed(r) ==
    {rule \in preRules[r] :
         \A kept \in resourceRules[r] : kept.ruleId # rule.ruleId}

\* the rules the last propagation inserted into resource r
Inserted(r) ==
    {rule \in resourceRules[r] :
         \A old \in preRules[r] : old.ruleId # rule.ruleId}

CountOf(rows, triple) ==
    Cardinality({rule \in rows : Triple(rule) = triple})

\* C21: in the multi-template path, for every (action, match, value) the
\* number of resource rules removed is the smaller of the number of resource
\* rules and the number of template rules with that triple; a rule without
\* a match is therefore not removed, and when no rule matches nothing is
\* removed and the template's rules are only added.
C21_RemovedOneToOne ==
    Propagated =>
        \A r \in MultiPathResources :
            /\ \A rule \in preRules[r] :
                   CountOf(Removed(r), Triple(rule))
                       = Min({CountOf(preRules[r], Triple(rule)),
                              CountOf(templateRules[lastOp.templateId],
                                      Triple(rule))})
            /\ Cardinality(Inserted(r))
                   = Cardinality(templateRules[lastOp.templateId])
            /\ \A rule \in preRules[r] \ Removed(r) :
                   Survives(rule, resourceRules[r])

\* two resource rules of one triple meet one template rule of it: one is
\* removed, the other stays
C21_Witness ==
    /\ Propagated
    /\ \E r \in MultiPathResources : \E a, b \in preRules[r] :
           /\ a # b /\ Triple(a) = Triple(b)
           /\ CountOf(templateRules[lastOp.templateId], Triple(a)) = 1
           /\ a \in Removed(r)
           /\ b \notin Removed(r)

\* the row of resource r that has the ruleId of rule
RowNow(r, rule) ==
    CHOOSE kept \in resourceRules[r] : kept.ruleId = rule.ruleId

\* the inserted rules, in priority order, are the template's rules, in
\* priority order
InsertedInTemplateOrder(r) ==
    LET new == OrderByPriority(Inserted(r))
        templateRulesList == OrderByPriority(templateRules[lastOp.templateId])
    IN  /\ Len(new) = Len(templateRulesList)
        /\ \A i \in DOMAIN new :
               Content(new[i]) = Content(templateRulesList[i])

\* C22: after the multi-template path the priorities of the resource are
\* exactly 1..N, the rules that were not removed are in the order they had,
\* and the template's rules come after all of them, in ascending order of
\* their template priority.
C22_MultiPathOrder ==
    Propagated =>
        \A r \in MultiPathResources :
            LET retained == preRules[r] \ Removed(r)
            IN  /\ OneToN(resourceRules[r])
                /\ \A a, b \in retained :
                       a.priority < b.priority
                           => RowNow(r, a).priority < RowNow(r, b).priority
                /\ \A a \in retained, new \in Inserted(r) :
                       RowNow(r, a).priority < new.priority
                /\ InsertedInTemplateOrder(r)

\* two rules retained and renumbered, one removed, two inserted
C22_Witness ==
    /\ Propagated
    /\ \E r \in MultiPathResources :
           /\ Cardinality(preRules[r] \ Removed(r)) >= 2
           /\ Removed(r) # {}
           /\ Cardinality(Inserted(r)) = 2
           /\ \E a \in preRules[r] \ Removed(r) :
                  RowNow(r, a).priority # a.priority

\* the resources the last propagation took through the single-template
\* path: they had rules and no other template
SinglePathResources ==
    {r \in AssignedResources(lastOp.templateId) :
         Cardinality(AssignedTemplates(r)) = 1 /\ preRules[r] # {}}

EmptyPathResources ==
    {r \in AssignedResources(lastOp.templateId) : preRules[r] = {}}

\* C24: propagation to a resource without rules inserts one rule for each
\* template rule, with its action, match, value and enabled flag, the i-th
\* in ascending order of template priority at priority i whatever the
\* template's priorities are; with an empty template the resource stays
\* empty.
C24_EmptyResourceGetsTemplate ==
    Propagated =>
        \A r \in EmptyPathResources :
            /\ InsertedInTemplateOrder(r)
            /\ OneToN(resourceRules[r])
            /\ Cardinality(resourceRules[r])
                   = Cardinality(templateRules[lastOp.templateId])
            /\ templateRules[lastOp.templateId] = {} => resourceRules[r] = {}

\* a template whose only rule is not at priority 1
C24_Witness ==
    /\ Propagated
    /\ \E r \in EmptyPathResources :
           /\ \A rule \in templateRules[lastOp.templateId] : rule.priority > 1
           /\ \E rule \in resourceRules[r] : rule.priority = 1

(***************************************************************************)
(* unassignTemplateFromResource, from its first query to its response.     *)
(* The resource and the template exist; a request for a template that is   *)
(* not assigned to the resource is answered 404 and changes nothing.  The  *)
(* stores are those of the propagations, and propagations may come before  *)
(* and after.                                                              *)
(***************************************************************************)
\* `${rule.action}:${rule.match}:${rule.value}`, as its parts: no action and
\* no match type contains a colon
TemplateRuleKey(rule) == <<rule.action, ":", rule.match, ":", rule.value>>

unassignTemplateFromResource(resourceId, templateId) ==
    /\ <<resourceId, templateId>> \in resourceTemplates
    /\ LET templateRulesList == templateRules[templateId]
           resourceRulesList == resourceRules[resourceId]
           templateRuleMap ==
               {TemplateRuleKey(rule) : rule \in templateRulesList}
           rulesToRemove ==
               {resourceRule \in resourceRulesList :
                    TemplateRuleKey(resourceRule) \in templateRuleMap}
       IN  /\ resourceTemplates' =
                  resourceTemplates \ {<<resourceId, templateId>>}
           /\ resourceRules' =
                  [resourceRules EXCEPT ![resourceId] = @ \ rulesToRemove]
    /\ preRules' = resourceRules
    /\ prevOp' = lastOp
    /\ lastOp' = [op |-> "unassign", templateId |-> templateId,
                  resourceId |-> resourceId]
    /\ UNCHANGED <<templateRules, nextRuleId, nextTemplateRuleId, requests,
                   call, ret>>

Unassign ==
    \E r \in Resources, t \in Templates : unassignTemplateFromResource(r, t)

NextUnassign == Propagate \/ Unassign

SpecUnassign == InitProp /\ [][NextUnassign]_vars

Unassigned == lastOp.op = "unassign"

\* the rules of the resource that identifyTemplateRulesInResource takes for
\* rules of the template
ClassifiedAsTemplate(rows, templateId) ==
    Range(identifyTemplateRulesInResource(OrderByPriority(rows),
              OrderByPriority(templateRules[templateId])))

\* C25: unassignTemplateFromResource deletes exactly the resource rules that
\* the one-to-one exact match of the propagation takes for rules of the
\* template, deletes no rule whose (action, match, value) equals no rule of
\* the template, and the assignment no longer exists.
C25_UnassignRemovesClassified ==
    Unassigned =>
        /\ Removed(lastOp.resourceId)
               = ClassifiedAsTemplate(preRules[lastOp.resourceId],
                                      lastOp.templateId)
        /\ \A rule \in Removed(lastOp.resourceId) :
               Triple(rule) \in TemplateTriples(lastOp.templateId)
        /\ resourceRules[lastOp.resourceId] \subseteq preRules[lastOp.resourceId]
        /\ <<lastOp.resourceId, lastOp.templateId>> \notin resourceTemplates

(***************************************************************************)
(* syncTemplateToResource.  The repository holds two handlers of that      *)
(* name: the one that adds the template's rules after the resource's own   *)
(* (src/unnamed/part_002) and the one of routers/ruleTemplate, which       *)
(* replaces the resource's rules.  Each is modelled from its first query   *)
(* to its response; the resource and the template exist, and a request for *)
(* a template that is not assigned to the resource is answered 404 and     *)
(* changes nothing.                                                        *)
(***************************************************************************)
\* new rows at maxExistingPriority + templateRule.priority + index + 1,
\* index from 0
SyncNewRules(templateRulesList, maxExistingPriority, firstId) ==
    {[ruleId   |-> firstId + i - 1,
      action   |-> templateRulesList[i].action,
      match    |-> templateRulesList[i].match,
      value    |-> templateRulesList[i].value,
      priority |-> maxExistingPriority + templateRulesList[i].priority
                       + (i - 1) + 1,
      enabled  |-> templateRulesList[i].enabled] :
        i \in DOMAIN templateRulesList}

\* new rows at the priority of their template rule
CopiedRules(templateRulesList, firstId) ==
    {[ruleId   |-> firstId + i - 1,
      action   |-> templateRulesList[i].action,
      match    |-> templateRulesList[i].match,
      value    |-> templateRulesList[i].value,
      priority |-> templateRulesList[i].priority,
      enabled  |-> templateRulesList[i].enabled] :
        i \in DOMAIN templateRulesList}

\* what both handlers record and leave alone
SyncAnswered(resourceId, templateId, router, templateRulesList) ==
    /\ requests' = requests + 1
    /\ nextRuleId' = nextRuleId + Len(templateRulesList)
    /\ preRules' = resourceRules
    /\ prevOp' = lastOp
    /\ lastOp' = [op |-> "syncTemplateToResource", router |-> router,
                  resourceId |-> resourceId, templateId |-> templateId,
                  templateRulesList |-> templateRulesList]
    /\ UNCHANGED <<templateRules, resourceTemplates, nextTemplateRuleId,
                   call, ret>>

\* src/unnamed/part_002
syncTemplateToResource(resourceId, templateId) ==
    /\ requests < MaxRequests
    /\ <<resourceId, templateId>> \in resourceTemplates
    /\ \E templateRulesList \in PriorityOrders(templateRules[templateId]) :
           /\ IF Len(templateRulesList) = 0
              THEN UNCHANGED resourceRules
              ELSE LET existingRules == resourceRules[resourceId]
                       maxExistingPriority ==
                           IF existingRules # {}
                           THEN Max({r.priority : r \in existingRules})
                           ELSE 0
                   IN  resourceRules' =
                           [resourceRules EXCEPT ![resourceId] =
                               @ \cup SyncNewRules(templateRulesList,
                                          maxExistingPriority, nextRuleId)]
           /\ SyncAnswered(resourceId, templateId, "resource",
                           templateRulesList)

\* src/server/routers/ruleTemplate/syncTemplateToResource.ts
ruleTemplateSyncTemplateToResource(resourceId, templateId) ==
    /\ requests < MaxRequests
    /\ <<resourceId, templateId>> \in resourceTemplates
    /\ \E templateRulesList \in PriorityOrders(templateRules[templateId]) :
           /\ IF Len(templateRulesList) = 0
              THEN UNCHANGED resourceRules
              ELSE resourceRules' =
                       [resourceRules EXCEPT ![resourceId] =
                           CopiedRules(templateRulesList, nextRuleId)]
           /\ SyncAnswered(resourceId, templateId, "ruleTemplate",
                           templateRulesList)

MaxSyncRules == 2

SyncTemplatePriorities == {1, 2, 3}
SyncResourcePriorities == {1, 2, 5}

\* template rows of the kinds and priorities of the list, ruleIds 1..
SyncTemplateRows(list) ==
    {[ruleId |-> i, action |-> list[i][1].action, match |-> list[i][1].match,
      value |-> list[i][1].value, priority |-> list[i][2],
      enabled |-> list[i][1].enabled] : i \in DOMAIN list}

InitSync ==
    /\ \E list \in SeqsUpTo(CrudKinds \X SyncTemplatePriorities, MaxSyncRules) :
           templateRules = [t \in Templates |->
                               IF t = "t1" THEN SyncTemplateRows(list)
                               ELSE {}]
    /\ \E priorities \in SeqsUpTo(SyncResourcePriorities, MaxSyncRules) :
           /\ resourceRules = [r \in Resources |->
                                  IF r = 1 THEN RowsAt(priorities, 1) ELSE {}]
           /\ nextRuleId = Len(priorities) + 1
    /\ nextTemplateRuleId = MaxSyncRules + 1
    /\ requests = 0
    /\ resourceTemplates = {<<1, "t1">>}
    /\ lastOp = NoOp
    /\ prevOp = NoOp
    /\ preRules = resourceRules
    /\ call = [fn |-> "none"]
    /\ ret = NotReturned

Sync ==
    \E r \in Resources, t \in Templates : syncTemplateToResource(r, t)

RuleTemplateSync ==
    \E r \in Resources, t \in Templates :
        ruleTemplateSyncTemplateToResource(r, t)

NextSync == Sync \/ RuleTemplateSync

SpecSync == InitSync /\ [][NextSync]_vars

Synced == lastOp.op = "syncTemplateToResource"

\* the largest priority the resource held before the request, 0 if none
MaxBefore(r) == MaxPriorityOrZero(preRules[r])

\* C26: syncTemplateToResource inserts one resource rule for each template
\* rule, at priority existingMaxPriority + templateRule.priority + index + 1
\* (index from 0 in ascending order of template priority), deletes and
\* modifies no rule the resource had, and, the template priorities being at
\* least 1, every inserted priority is greater than every priority the
\* resource had and different from the other inserted ones.
C26_SyncAppends ==
    Synced =>
        LET r    == lastOp.resourceId
            list == lastOp.templateRulesList
        IN  /\ preRules[r] \subseteq resourceRules[r]
            /\ Cardinality(Inserted(r)) = Len(list)
            /\ RowView(Inserted(r))
                   = {[action |-> list[i].action, match |-> list[i].match,
                       value |-> list[i].value, enabled |-> list[i].enabled,
                       priority |-> MaxBefore(r) + list[i].priority + i] :
                          i \in DOMAIN list}
            /\ \A new \in Inserted(r) :
                   /\ \A old \in preRules[r] : new.priority > old.priority
                   /\ \A other \in Inserted(r) :
                          other # new => other.priority # new.priority

(***************************************************************************)
(* Two createTemplateRule requests on template t1 at the same time.  A     *)
(* request is at one of its awaits: the select of the existing rules, the  *)
(* select of getNextPriority, the UPDATE of resolvePriorityConflicts, the  *)
(* insert.  call holds the frame of each request: its position, its body   *)
(* and its local variables; call.serial is true as long as no request has  *)
(* taken a step while the other was under way.  No resource is assigned to *)
(* the template, and the propagation that follows the insert has nothing   *)
(* to write.                                                               *)
(***************************************************************************)
MaxConcurrentRules == 2

Requests == {1, 2}

ConcurrentPriorities == {NoPriority, GivenPriority(1), GivenPriority(2)}

\* the lists of up to MaxConcurrentRules different priorities
DistinctPriorityLists ==
    {list \in SeqsUpTo(ShiftPriorities, MaxConcurrentRules) :
         \A i, j \in DOMAIN list : i # j => list[i] # list[j]}

NewFrame(kind, priority) ==
    [pc |-> "start", kind |-> kind, priority |-> priority,
     existingRules |-> {}, finalPriority |-> 0, updatedRules |-> {},
     status |-> 0]

InitConcurrent ==
    /\ \E list \in DistinctPriorityLists :
           /\ templateRules = [t \in Templates |->
                                  IF t = "t1" THEN RowsAt(list, 1) ELSE {}]
           /\ nextTemplateRuleId = Len(list) + 1
    /\ resourceRules = EmptyResourceRules
    /\ resourceTemplates = {}
    /\ nextRuleId = 1
    /\ requests = 0
    /\ lastOp = NoOp
    /\ prevOp = NoOp
    /\ preRules = resourceRules
    /\ \E frames \in [Requests ->
                         {NewFrame(kind, priority) :
                              kind \in CrudKinds,
                              priority \in ConcurrentPriorities}] :
           call = [fn |-> "createTemplateRule", frames |-> frames,
                   serial |-> TRUE]
    /\ ret = NotReturned

\* request i moves to the frame `frame`; the step is one of a serial
\* execution when the other request has not started or has been answered
StepTo(i, frame) ==
    call' = [call EXCEPT
                !.frames[i] = frame,
                !.serial = @ /\ \A j \in Requests \ {i} :
                                    call.frames[j].pc \in {"start", "done"}]

\* const existingRulesData = await db.select()...
CreateSelectExisting(i) ==
    LET frame == call.frames[i]
    IN  /\ frame.pc = "start"
        /\ StepTo(i, [frame EXCEPT
                         !.existingRules = templateRules["t1"],
                         !.finalPriority =
                             IF frame.priority.given THEN frame.priority.v
                             ELSE 0,
                         !.pc = IF frame.priority.given THEN "shift"
                                ELSE "getNextPriority"])
        /\ UNCHANGED <<storeVars, ret>>

\* finalPriority = await getNextPriority(undefined, templateId)
CreateGetNextPriority(i) ==
    LET frame == call.frames[i]
    IN  /\ frame.pc = "getNextPriority"
        /\ StepTo(i, [frame EXCEPT
                         !.finalPriority =
                             getNextPriority(templateRules, resourceRules,
                                             NoResource, "t1"),
                         !.pc = "shift"])
        /\ UNCHANGED <<storeVars, ret>>

\* updatedRules = await resolvePriorityConflicts(existingRules, ...): the
\* rules to shift are looked for in the list read earlier, the UPDATE acts
\* on the table as it is now
CreateResolve(i) ==
    LET frame == call.frames[i]
        resolved == resolvePriorityConflicts(templateRules, resourceRules,
                        frame.existingRules, frame.finalPriority,
                        NoResource, "t1")
    IN  /\ frame.pc = "shift"
        /\ templateRules' = resolved.templateRules
        /\ StepTo(i, [frame EXCEPT !.updatedRules = resolved.rules,
                                   !.pc = "insert"])
        /\ UNCHANGED <<resourceRules, resourceTemplates, nextRuleId,
                       nextTemplateRuleId, requests, lastOp, prevOp,
                       preRules, ret>>

\* validateRuleConsistency([...updatedRules, newRule]), then the insert and
\* the propagation
CreateInsert(i) ==
    LET frame == call.frames[i]
        newRule == [action |-> frame.kind.action, match |-> frame.kind.match,
                    value |-> frame.kind.value,
                    priority |-> frame.finalPriority,
                    enabled |-> frame.kind.enabled]
        consistencyCheck ==
            validateRuleConsistency(
                OrderByPriority(frame.updatedRules) \o <<newRule>>)
        inserted ==
            [templateRules EXCEPT !["t1"] =
                @ \cup {newRule @@ [ruleId |-> nextTemplateRuleId]}]
    IN  /\ frame.pc = "insert"
        /\ IF ~consistencyCheck.isValid
           THEN /\ StepTo(i, [frame EXCEPT !.status = 400, !.pc = "done"])
                /\ UNCHANGED <<templateRules, resourceRules, nextRuleId,
                               nextTemplateRuleId>>
           ELSE /\ StepTo(i, [frame EXCEPT !.status = 201, !.pc = "done"])
                /\ templateRules' = inserted
                /\ nextTemplateRuleId' = nextTemplateRuleId + 1
                /\ resourceRules' \in
                       PropagatedRules(inserted, resourceRules, "t1")
                /\ nextRuleId' =
                       nextRuleId + PropagationInserts(inserted, "t1")
        /\ UNCHANGED <<resourceTemplates, requests, lastOp, prevOp,
                       preRules, ret>>

NextConcurrent ==
    \E i \in Requests :
        \/ CreateSelectExisting(i)
        \/ CreateGetNextPriority(i)
        \/ CreateResolve(i)
        \/ CreateInsert(i)

SpecConcurrent == InitConcurrent /\ [][NextConcurrent]_vars

BothAnswered == \A i \in Requests : call.frames[i].pc = "done"

\* C27: from a template with unique priorities, as long as two
\* createTemplateRule requests on it run one after the other its priorities
\* stay unique; steps of the two requests that interleave can leave two
\* rules of the template at the same priority (C27_Witness).
C27_SerialKeepsUnique ==
    call.serial => NoDuplicatePriority(templateRules["t1"])

\* both requests were answered 201 after interleaved steps, and two rules
\* of the template have the same priority
C27_Witness ==
    /\ BothAnswered
    /\ ~call.serial
    /\ \A i \in Requests : call.frames[i].status = 201
    /\ ~NoDuplicatePriority(templateRules["t1"])

\* C28: when createTemplateRule answers 400 because validateRuleConsistency
\* reports a conflict, the persisted rules of the template, every priority
\* included, are those of before the request.
C28_RejectedCreateWritesNothing ==
    (Answered("createTemplateRule") /\ lastOp.status = 400)
        => RulesAfter = RulesBefore

\* C29: a step of propagateTemplateToResources(T) leaves the rules of every
\* template, every assignment record and the rules of every resource not
\* assigned to T as they were; only rule rows of resources assigned to T
\* change.
C29_PropagateFrame ==
    [][lastOp'.op = "propagate" =>
           /\ templateRules' = templateRules
           /\ resourceTemplates' = resourceTemplates
           /\ \A r \in Resources :
                  <<r, lastOp'.templateId>> \notin resourceTemplates
                      => resourceRules'[r] = resourceRules[r]]_vars

\* a propagation of a template that has rules rewrote the rows of an
\* assigned resource while a resource not assigned to it holds rules
C29_Witness ==
    /\ Propagated
    /\ templateRules[lastOp.templateId] # {}
    /\ \E r \in Resources :
           /\ <<r, lastOp.templateId>> \in resourceTemplates
           /\ resourceRules[r] # preRules[r]
    /\ \E r \in Resources :
           /\ <<r, lastOp.templateId>> \notin resourceTemplates
           /\ resourceRules[r] # {}
           /\ resourceRules[r] = preRules[r]

(***************************************************************************)
(* matchesPathPattern on patterns without wildcard: paths and patterns     *)
(* over letters of both cases and the regex metacharacters . + ( [ |       *)
(***************************************************************************)
MaxLiteralLen == 2

LiteralAlphabet == {"a", "A", ".", "+", "(", "[", "|"}

LiteralStrings == SeqsUpTo(LiteralAlphabet, MaxLiteralLen)

InitLiteral ==
    /\ StoreIdle
    /\ call \in [fn : {"matchesPathPattern"}, path : LiteralStrings,
                 pattern : LiteralStrings]
    /\ ret = NotReturned

NextLiteral == CallMatchesPathPattern

SpecLiteral == InitLiteral /\ [][NextLiteral]_vars

NoWildcard(pattern) ==
    \A i \in DOMAIN pattern : pattern[i] \notin {"*", "?"}

\* C30: for a pattern with neither `*` nor `?`, matchesPathPattern returns
\* true exactly when the path equals the pattern, character for character:
\* the whole path, the case of the letters, and the metacharacters . + ( [ |
\* as themselves.
C30_LiteralPatternIsEquality ==
    (PathReturned /\ NoWildcard(call.pattern))
        => ret.value = (call.path = call.pattern)

\* the call returned false for a pattern with a metacharacter and a path of
\* the same length that differs from it only where the pattern has `.`
C30_Witness ==
    /\ PathReturned
    /\ NoWildcard(call.pattern)
    /\ ret.value = FALSE
    /\ Len(call.path) = Len(call.pattern)
    /\ \E i \in DOMAIN call.pattern :
           /\ call.pattern[i] = "."
           /\ call.path[i] # "."
           /\ \A j \in DOMAIN call.pattern \ {i} :
                  call.path[j] = call.pattern[j]

=============================================================================
